---- MODULE Spec2Model ----
(***************************************************************************)
(* Model of the congress-directory backend (backend/main.py): the          *)
(* in-memory read-through cache in front of the "legislators" collection,  *)
(* the filter endpoints on top of it, and the Congress.gov / YouTube proxy *)
(* endpoints.  Time is counted in hours.                                   *)
(***************************************************************************)
EXTENDS Integers, Sequences, FiniteSets, TLC

\* ------------------------------------------------------------------ bounds
\* Hours the clock advances per Tick, and the last hour the clock reaches.
TickHours == 12
MaxTime == 36
\* Depth at which Python refuses another recursive call (RecursionError).
RecursionLimit == 3

\* ------------------------------------------------------- program constants
\* CACHE_DURATION = timedelta(hours=24)
CACHE_DURATION == 24

\* ------------------------------------------------------------ Python values
\* Optional values: None is the empty tuple, a present value x is <<x>>.
None == <<>>
Some(x) == <<x>>
IsNone(o) == o = <<>>
Val(o) == o[1]

\* Python truthiness of an optional list: None and [] are both falsy.
TruthyList(o) == ~IsNone(o) /\ Len(Val(o)) > 0

\* Python truthiness of a str query parameter: None and "" are both falsy;
\* an absent parameter is written "".
TruthyStr(s) == s # ""

\* str.upper() on the strings that occur as state codes.
Upper(s) == CASE s = "ca" -> "CA"
              [] s = "ny" -> "NY"
              [] OTHER -> s

\* Python compares str by code point; the strings that occur as sort keys,
\* listed in ascending code-point order.
StrOrder == <<"", "Adams", "Baker", "CA", "Governor", "House", "NY", "Senate">>
StrRank(s) == CHOOSE i \in 1..Len(StrOrder) : StrOrder[i] = s
StrLess(a, b) == StrRank(a) < StrRank(b)

\* ------------------------------------------------------------------- store
\* Documents of the "legislators" collection are keyed by bioguide_id
\* (import_legislators.py:147, import_governors.py:125).  Each identifier has
\* a few possible documents (imports and the update scripts rewrite fields).
\* A missing or null external id is written "".
PersonIds == {"A000001", "B000002"}
UnknownId == "Z000009"
AllIds == PersonIds \cup {UnknownId}
\* Firestore streams a collection in document-id order.
IdOrder == <<"A000001", "B000002">>

Absent == 0
Revs(id) == {1, 2}

StoredDoc(id, rev) ==
  CASE id = "A000001" /\ rev = 1 ->
         [bioguide_id |-> id, state |-> "CA", chamber |-> "Senate",
          last_name |-> "Baker", party |-> "D", rev |-> 1,
          external_ids |-> [youtube |-> "SenBaker", youtube_id |-> ""]]
    [] id = "A000001" /\ rev = 2 ->
         [bioguide_id |-> id, state |-> "CA", chamber |-> "House",
          last_name |-> "Baker", party |-> "D", rev |-> 2,
          external_ids |-> [youtube |-> "", youtube_id |-> "UC-Baker"]]
    [] id = "B000002" /\ rev = 1 ->
         [bioguide_id |-> id, state |-> "CA", chamber |-> "Senate",
          last_name |-> "Adams", party |-> "R", rev |-> 1,
          external_ids |-> [youtube |-> "", youtube_id |-> ""]]
    [] id = "GOV-CA" /\ rev = 1 ->
         [bioguide_id |-> id, state |-> "CA", chamber |-> "Governor",
          last_name |-> "Adams", party |-> "D", rev |-> 1,
          external_ids |-> [youtube |-> "", youtube_id |-> ""]]
    [] id = "GOV-CA" /\ rev = 2 ->
         [bioguide_id |-> id, state |-> "CA", chamber |-> "Governor",
          last_name |-> "Baker", party |-> "R", rev |-> 2,
          external_ids |-> [youtube |-> "", youtube_id |-> ""]]
    [] id = "GOV-NY" ->
         [bioguide_id |-> id, state |-> "NY", chamber |-> "Governor",
          last_name |-> "Baker", party |-> "D", rev |-> rev,
          external_ids |-> [youtube |-> "", youtube_id |-> ""]]
    [] OTHER ->
         [bioguide_id |-> id, state |-> "NY", chamber |-> "House",
          last_name |-> "Adams", party |-> "D", rev |-> 2,
          external_ids |-> [youtube |-> "", youtube_id |-> ""]]

\* doc.to_dict() followed by legislator["id"] = doc.id
ToDict(id, rev) == StoredDoc(id, rev) @@ [id |-> id]

\* db.collection("legislators").document(id).get().exists
DocExists(st, id) == id \in PersonIds /\ st[id] # Absent

RECURSIVE StreamFrom(_, _)
StreamFrom(st, i) ==
  IF i > Len(IdOrder) THEN <<>>
  ELSE IF st[IdOrder[i]] # Absent
       THEN <<ToDict(IdOrder[i], st[IdOrder[i]])>> \o StreamFrom(st, i + 1)
       ELSE StreamFrom(st, i + 1)

\* db.collection("legislators").stream(), each document converted as above
StreamLegislators(st) == StreamFrom(st, 1)

\* ------------------------------------------------------------------- cache
EmptyCache ==
  [legislators |-> [data |-> None, expires |-> None],
   legislators_by_id |-> <<>>]

\* The validity test of get_cached_legislators.
IsCacheValid(c, t) ==
  /\ TruthyList(c.legislators.data)
  /\ ~IsNone(c.legislators.expires)
  /\ Val(c.legislators.expires) > t

\* Variant: the key is (state, last_name, chamber).
KeyLess_SurnameFirst(a, b) ==
  \/ StrLess(a.state, b.state)
  \/ a.state = b.state /\ StrLess(a.last_name, b.last_name)
  \/ a.state = b.state /\ a.last_name = b.last_name
       /\ StrLess(a.chamber, b.chamber)

\* The sort key of get_cached_legislators, compared as Python compares tuples.
KeyLess(a, b) ==
  \/ StrLess(a.state, b.state)
  \/ a.state = b.state /\ StrLess(a.chamber, b.chamber)
  \/ a.state = b.state /\ a.chamber = b.chamber
       /\ StrLess(a.last_name, b.last_name)

\* list.sort is stable: x goes behind every element whose key is not greater.
RECURSIVE InsertSorted(_, _)
InsertSorted(x, s) ==
  IF s = <<>> THEN <<x>>
  ELSE IF KeyLess(x, Head(s)) THEN <<x>> \o s
       ELSE <<Head(s)>> \o InsertSorted(x, Tail(s))

RECURSIVE SortFrom(_, _, _)
SortFrom(docs, i, acc) ==
  IF i > Len(docs) THEN acc
  ELSE SortFrom(docs, i + 1, InsertSorted(docs[i], acc))

\* Variant: the list is cached in stream order, the sort is left out.
SortLegislators_Unsorted(docs) == docs

SortLegislators(docs) == SortFrom(docs, 1, <<>>)

\* One individual slot as written by either read path.
Slot(doc, t) == [data |-> doc, expires |-> t + CACHE_DURATION]

\* cache["legislators_by_id"][key] = slot
PutSlot(byid, key, slot) ==
  [k \in (DOMAIN byid) \cup {key} |-> IF k = key THEN slot ELSE byid[k]]

\* Variant: a slot that already exists is kept (setdefault).
RECURSIVE FanOut_KeepExisting(_, _, _, _)
FanOut_KeepExisting(byid, docs, i, t) ==
  IF i > Len(docs) THEN byid
  ELSE FanOut_KeepExisting(
         IF docs[i].bioguide_id \in DOMAIN byid THEN byid
         ELSE PutSlot(byid, docs[i].bioguide_id, Slot(docs[i], t)),
         docs, i + 1, t)

\* The loop of get_cached_legislators that caches each document individually.
RECURSIVE FanOut(_, _, _, _)
FanOut(byid, docs, i, t) ==
  IF i > Len(docs) THEN byid
  ELSE FanOut(PutSlot(byid, docs[i].bioguide_id, Slot(docs[i], t)),
              docs, i + 1, t)

\* Variant: a list read leaves the individual slots alone.
get_cached_legislators_NoFanOut(c, st, t) ==
  IF IsCacheValid(c, t)
  THEN [cache |-> c, fetches |-> 0, ret |-> Val(c.legislators.data)]
  ELSE LET docs == StreamLegislators(st)
           sorted == SortLegislators(docs)
       IN [cache |->
             [legislators |-> [data |-> Some(sorted),
                               expires |-> Some(t + CACHE_DURATION)],
              legislators_by_id |-> c.legislators_by_id],
           fetches |-> 1,
           ret |-> sorted]

\* get_cached_legislators: the cache afterwards, the number of store reads
\* performed and the value returned.
get_cached_legislators(c, st, t) ==
  IF IsCacheValid(c, t)
  THEN [cache |-> c, fetches |-> 0, ret |-> Val(c.legislators.data)]
  ELSE LET docs == StreamLegislators(st)
           sorted == SortLegislators(docs)
       IN [cache |->
             [legislators |-> [data |-> Some(sorted),
                               expires |-> Some(t + CACHE_DURATION)],
              legislators_by_id |-> FanOut(c.legislators_by_id, docs, 1, t)],
           fetches |-> 1,
           ret |-> sorted]

\* The individual-slot test of get_cached_legislator.
IsSlotValid(c, id, t) ==
  /\ id \in DOMAIN c.legislators_by_id
  /\ c.legislators_by_id[id].expires > t

\* Variant: a slot is written for an identifier the store does not hold.
get_cached_legislator_CachesMiss(c, st, id, t) ==
  IF IsSlotValid(c, id, t)
  THEN [cache |-> c, fetches |-> 0,
        ret |-> Some(c.legislators_by_id[id].data)]
  ELSE IF ~DocExists(st, id)
       THEN [cache |->
               [c EXCEPT !.legislators_by_id = PutSlot(@, id, Slot(<<>>, t))],
             fetches |-> 1, ret |-> None]
       ELSE LET legislator == ToDict(id, st[id])
            IN [cache |->
                  [c EXCEPT !.legislators_by_id =
                     PutSlot(@, id, Slot(legislator, t))],
                fetches |-> 1,
                ret |-> Some(legislator)]

\* get_cached_legislator: ret is None when the document does not exist.
get_cached_legislator(c, st, id, t) ==
  IF IsSlotValid(c, id, t)
  THEN [cache |-> c, fetches |-> 0,
        ret |-> Some(c.legislators_by_id[id].data)]
  ELSE IF ~DocExists(st, id)
       THEN [cache |-> c, fetches |-> 1, ret |-> None]
       ELSE LET legislator == ToDict(id, st[id])
            IN [cache |->
                  [c EXCEPT !.legislators_by_id =
                     PutSlot(@, id, Slot(legislator, t))],
                fetches |-> 1,
                ret |-> Some(legislator)]

\* Variant: the individual slots are not reset.
ClearedCache_KeepById(c) ==
  [c EXCEPT !.legislators = [data |-> None, expires |-> None]]

\* clear_cache
ClearedCache(c) ==
  [legislators |-> [data |-> None, expires |-> None],
   legislators_by_id |-> <<>>]

\* Variant: legislators_cached tests the list as the read path does, so an
\* empty snapshot counts as not cached.
StatusBody_Truthy(c, t) ==
  LET legislators_cached == TruthyList(c.legislators.data)
  IN [legislators_cached |-> legislators_cached,
      legislators_count |->
        IF legislators_cached THEN Len(Val(c.legislators.data)) ELSE 0,
      individual_cached |-> Cardinality(DOMAIN c.legislators_by_id),
      expires_in_seconds |->
        IF ~IsNone(c.legislators.expires)
        THEN Some((Val(c.legislators.expires) - t) * 3600)
        ELSE None,
      cache_duration_hours |-> CACHE_DURATION]

\* The body returned by cache_status.
StatusBody(c, t) ==
  LET legislators_cached == ~IsNone(c.legislators.data)
  IN [legislators_cached |-> legislators_cached,
      legislators_count |->
        IF legislators_cached THEN Len(Val(c.legislators.data)) ELSE 0,
      individual_cached |-> Cardinality(DOMAIN c.legislators_by_id),
      expires_in_seconds |->
        IF ~IsNone(c.legislators.expires)
        THEN Some((Val(c.legislators.expires) - t) * 3600)
        ELSE None,
      cache_duration_hours |-> CACHE_DURATION]

\* ----------------------------------------------------------------- filters
\* The list comprehensions [l for l in s if ...] of the filter endpoints.
FilterState(s, state) ==
  LET P(l) == Upper(l.state) = Upper(state) IN SelectSeq(s, P)
FilterParty(s, party) ==
  LET P(l) == l.party = party IN SelectSeq(s, P)
FilterChamber(s, chamber) ==
  LET P(l) == l.chamber = chamber IN SelectSeq(s, P)

\* The filter part of get_legislators.
ApplyFilters(legislators, state, party, chamber) ==
  LET s1 == IF TruthyStr(state) THEN FilterState(legislators, state)
            ELSE legislators
      s2 == IF TruthyStr(party) THEN FilterParty(s1, party) ELSE s1
  IN IF TruthyStr(chamber) THEN FilterChamber(s2, chamber) ELSE s2

\* The filter part of get_legislators_by_state.
ApplyStateFilter(legislators, state, chamber) ==
  LET result == FilterState(legislators, state)
  IN IF TruthyStr(chamber) THEN FilterChamber(result, chamber) ELSE result

\* The by_chamber tally of get_stats.
CountChamber(legislators, ch) ==
  Cardinality({i \in 1..Len(legislators) : legislators[i].chamber = ch})
StatsBody(legislators) ==
  [total |-> Len(legislators),
   by_chamber |-> [ch \in {legislators[i].chamber : i \in 1..Len(legislators)}
                     |-> CountChamber(legislators, ch)]]

\* Query parameters the requests are made with.
StateParams == {"", "ca"}
PartyParams == {"", "D"}
ChamberParams == {"", "Senate"}

\* ------------------------------------------------------------------- state
VARIABLES
  store,   \* legislators collection: identifier -> revision, Absent if none
  cache,   \* the module-level cache dict
  now,     \* datetime.now(), in hours
  last,    \* the request handled last: operation, arguments, response
  thr,     \* per worker thread: position in its handler and its locals
  legCache, \* legislation_cache collection: identifier -> document
  ytCache,  \* youtube_cache collection: identifier -> document
  ytKey,    \* whether YOUTUBE_API_KEY is configured (non-empty)
  script,   \* the import script that is running: position and locals
  colls     \* the other collections: name -> identifier -> document

vars == <<store, cache, now, last, thr, legCache, ytCache, ytKey, script,
          colls>>

\* What the cache endpoints leave alone when each request runs on its own.
threadVars == <<thr>>
proxyVars == <<legCache, ytCache, ytKey>>
scriptVars == <<script, colls>>

\* No script is running; the collections the scripts fill are empty.
NoScript == [pc |-> "idle"]
\* derived and scores are the fields the legislation and ideology scripts
\* add to the legislators documents.
NoColls == [committees |-> <<>>, committee_memberships |-> <<>>,
            derived |-> <<>>, scores |-> <<>>]

\* FastAPI runs the plain "def" endpoints on a pool of worker threads.
Threads == {1, 2}
IdleThread == [pc |-> "idle", t |-> 0, docs |-> <<>>, i |-> 0]

\* Where a cache slot stands at time t: never populated (or cleared),
\* populated and before its expiry, or populated and past it.
ListSlotState(c, t) ==
  IF IsNone(c.legislators.data) \/ IsNone(c.legislators.expires) THEN "empty"
  ELSE IF Val(c.legislators.expires) > t THEN "fresh" ELSE "expired"

PersonSlotState(c, id, t) ==
  IF id \notin DOMAIN c.legislators_by_id THEN "empty"
  ELSE IF c.legislators_by_id[id].expires > t THEN "fresh" ELSE "expired"

\* No request has been handled since the store or the clock last changed.
Idle == [op |-> "idle", args |-> <<>>, slot |-> "none", status |-> 200,
         fetches |-> 0, body |-> <<>>]

Init ==
  /\ store \in [PersonIds -> {Absent, 1}]
  /\ cache = EmptyCache
  /\ now = 0
  /\ last = Idle
  /\ thr = [w \in Threads |-> IdleThread]
  /\ legCache = <<>>
  /\ ytCache = <<>>
  /\ ytKey = TRUE
  /\ script = NoScript
  /\ colls = NoColls

\* GET /api/legislators
GetLegislators(state, party, chamber) ==
  LET r == get_cached_legislators(cache, store, now)
  IN /\ cache' = r.cache
     /\ last' = [op |-> "get_legislators",
                 args |-> <<state, party, chamber>>,
                 slot |-> ListSlotState(cache, now), status |-> 200,
                 fetches |-> r.fetches,
                 body |-> ApplyFilters(r.ret, state, party, chamber)]
     /\ UNCHANGED <<store, now, threadVars, proxyVars, scriptVars>>

\* GET /api/legislators/state/{state}
GetLegislatorsByState(state, chamber) ==
  LET r == get_cached_legislators(cache, store, now)
  IN /\ cache' = r.cache
     /\ last' = [op |-> "get_legislators_by_state",
                 args |-> <<state, chamber>>,
                 slot |-> ListSlotState(cache, now), status |-> 200,
                 fetches |-> r.fetches,
                 body |-> ApplyStateFilter(r.ret, state, chamber)]
     /\ UNCHANGED <<store, now, threadVars, proxyVars, scriptVars>>

\* GET /api/stats
GetStats ==
  LET r == get_cached_legislators(cache, store, now)
  IN /\ cache' = r.cache
     /\ last' = [op |-> "get_stats", args |-> <<>>,
                 slot |-> ListSlotState(cache, now), status |-> 200, fetches |-> r.fetches,
                 body |-> StatsBody(r.ret)]
     /\ UNCHANGED <<store, now, threadVars, proxyVars, scriptVars>>

\* GET /api/legislators/{bioguide_id}
GetLegislator(id) ==
  LET r == get_cached_legislator(cache, store, id, now)
  IN /\ cache' = r.cache
     /\ last' = [op |-> "get_legislator",
                 args |-> <<id>>, slot |-> PersonSlotState(cache, id, now),
                 status |-> IF IsNone(r.ret) THEN 404 ELSE 200,
                 fetches |-> r.fetches, body |-> r.ret]
     /\ UNCHANGED <<store, now, threadVars, proxyVars, scriptVars>>

\* POST /api/cache/clear
ClearCache ==
  /\ cache' = ClearedCache(cache)
  /\ last' = [op |-> "clear_cache", args |-> <<>>,
              slot |-> ListSlotState(cache, now), status |-> 200, fetches |-> 0, body |-> <<>>]
  /\ UNCHANGED <<store, now, threadVars, proxyVars, scriptVars>>

\* GET /api/cache/status
CacheStatus ==
  /\ last' = [op |-> "cache_status", args |-> <<>>,
              slot |-> ListSlotState(cache, now), status |-> 200, fetches |-> 0, body |-> StatusBody(cache, now)]
  /\ UNCHANGED <<store, cache, now, threadVars, proxyVars, scriptVars>>

\* Time passes.
Tick ==
  /\ now + TickHours <= MaxTime
  /\ now' = now + TickHours
  /\ last' = Idle
  /\ UNCHANGED <<store, cache, threadVars, proxyVars, scriptVars>>

\* An import or update script writes a document (doc_ref.set / update).
StoreWrite(id, rev) ==
  /\ store[id] # rev
  /\ store' = [store EXCEPT ![id] = rev]
  /\ last' = Idle
  /\ UNCHANGED <<cache, now, threadVars, proxyVars, scriptVars>>

\* An import with clearing deletes a document (doc.reference.delete()).
StoreDelete(id) ==
  /\ store[id] # Absent
  /\ store' = [store EXCEPT ![id] = Absent]
  /\ last' = Idle
  /\ UNCHANGED <<cache, now, threadVars, proxyVars, scriptVars>>

Next ==
  \/ \E s \in StateParams, p \in PartyParams, c \in ChamberParams :
       GetLegislators(s, p, c)
  \/ \E s \in StateParams \ {""}, c \in ChamberParams :
       GetLegislatorsByState(s, c)
  \/ GetStats
  \/ \E id \in AllIds : GetLegislator(id)
  \/ ClearCache
  \/ CacheStatus
  \/ Tick
  \/ \E id \in PersonIds : \E rev \in Revs(id) : StoreWrite(id, rev)
  \/ \E id \in PersonIds : StoreDelete(id)

Spec == Init /\ [][Next]_vars

\* ------------------------------------------------- requests on worker threads
\* The same handlers, one statement per step, for requests that overlap.
\* thr[w].t is the handler's local "now", thr[w].docs the streamed documents
\* and thr[w].i the index of the next document of the loop.

\* get_cached_legislators, lines 38-41: take the time, test the cache.
T_ReadCheck(w) ==
  /\ thr[w].pc = "idle"
  /\ thr' = [thr EXCEPT ![w] =
               [pc |-> IF IsCacheValid(cache, now) THEN "hit" ELSE "stream",
                t |-> now, docs |-> <<>>, i |-> 0]]
  /\ UNCHANGED <<store, cache, now, last, proxyVars, scriptVars>>

\* line 42: return cache["legislators"]["data"], read again at this point.
T_ReadHit(w) ==
  /\ thr[w].pc = "hit"
  /\ thr' = [thr EXCEPT ![w] = IdleThread]
  /\ last' = [op |-> "get_legislators", args |-> <<"", "", "">>,
              slot |-> "none", status |-> 200, fetches |-> 0,
              body |-> cache.legislators.data]
  /\ UNCHANGED <<store, cache, now, proxyVars, scriptVars>>

\* lines 45-46: docs = db.collection("legislators").stream()
T_ReadStream(w) ==
  /\ thr[w].pc = "stream"
  /\ thr' = [thr EXCEPT ![w].pc = "loop",
                        ![w].docs = StreamLegislators(store),
                        ![w].i = 1]
  /\ UNCHANGED <<store, cache, now, last, proxyVars, scriptVars>>

\* lines 47-55: one iteration of the loop caches one document individually.
T_ReadLoop(w) ==
  /\ thr[w].pc = "loop"
  /\ thr[w].i <= Len(thr[w].docs)
  /\ cache' = [cache EXCEPT !.legislators_by_id =
                 PutSlot(@, thr[w].docs[thr[w].i].bioguide_id,
                         Slot(thr[w].docs[thr[w].i], thr[w].t))]
  /\ thr' = [thr EXCEPT ![w].i = @ + 1]
  /\ UNCHANGED <<store, now, last, proxyVars, scriptVars>>

\* lines 57-64: sort the local list, then cache["legislators"]["data"] = ...
T_ReadData(w) ==
  /\ thr[w].pc = "loop"
  /\ thr[w].i > Len(thr[w].docs)
  /\ cache' = [cache EXCEPT !.legislators.data =
                 Some(SortLegislators(thr[w].docs))]
  /\ thr' = [thr EXCEPT ![w].pc = "expires"]
  /\ UNCHANGED <<store, now, last, proxyVars, scriptVars>>

\* lines 65-67: cache["legislators"]["expires"] = now + CACHE_DURATION; return
T_ReadExpires(w) ==
  /\ thr[w].pc = "expires"
  /\ cache' = [cache EXCEPT !.legislators.expires =
                 Some(thr[w].t + CACHE_DURATION)]
  /\ thr' = [thr EXCEPT ![w] = IdleThread]
  /\ last' = [op |-> "get_legislators", args |-> <<"", "", "">>,
              slot |-> "none", status |-> 200, fetches |-> 1,
              body |-> Some(SortLegislators(thr[w].docs))]
  /\ UNCHANGED <<store, now, proxyVars, scriptVars>>

\* clear_cache, line 102
T_ClearData(w) ==
  /\ thr[w].pc = "idle"
  /\ cache' = [cache EXCEPT !.legislators.data = None]
  /\ thr' = [thr EXCEPT ![w].pc = "clear_expires"]
  /\ UNCHANGED <<store, now, last, proxyVars, scriptVars>>

\* clear_cache, line 103
T_ClearExpires(w) ==
  /\ thr[w].pc = "clear_expires"
  /\ cache' = [cache EXCEPT !.legislators.expires = None]
  /\ thr' = [thr EXCEPT ![w].pc = "clear_by_id"]
  /\ UNCHANGED <<store, now, last, proxyVars, scriptVars>>

\* clear_cache, lines 104-105
T_ClearById(w) ==
  /\ thr[w].pc = "clear_by_id"
  /\ cache' = [cache EXCEPT !.legislators_by_id = <<>>]
  /\ thr' = [thr EXCEPT ![w] = IdleThread]
  /\ last' = [op |-> "clear_cache", args |-> <<>>, slot |-> "none",
              status |-> 200, fetches |-> 0, body |-> <<>>]
  /\ UNCHANGED <<store, now, proxyVars, scriptVars>>

\* cache_status, run without being interrupted
T_Status(w) ==
  /\ thr[w].pc = "idle"
  /\ last' = [op |-> "cache_status", args |-> <<>>, slot |-> "none",
              status |-> 200, fetches |-> 0, body |-> StatusBody(cache, now)]
  /\ UNCHANGED <<store, cache, now, thr, proxyVars, scriptVars>>

NextThreads ==
  \/ \E w \in Threads : T_ReadCheck(w)
  \/ \E w \in Threads : T_ReadHit(w)
  \/ \E w \in Threads : T_ReadStream(w)
  \/ \E w \in Threads : T_ReadLoop(w)
  \/ \E w \in Threads : T_ReadData(w)
  \/ \E w \in Threads : T_ReadExpires(w)
  \/ \E w \in Threads : T_ClearData(w)
  \/ \E w \in Threads : T_ClearExpires(w)
  \/ \E w \in Threads : T_ClearById(w)
  \/ \E w \in Threads : T_Status(w)
  \/ Tick

SpecThreads == Init /\ [][NextThreads]_vars

\* ------------------------------------------------ Congress.gov proxy endpoints
\* Texts are sequences of characters, so that "in" and lower() are computed.
UpperCase == <<"A", "B", "C", "D", "E", "F", "G", "H", "I", "J", "K", "L", "M", "N", "O", "P", "Q", "R", "S", "T", "U", "V", "W", "X", "Y", "Z">>
LowerCase == <<"a", "b", "c", "d", "e", "f", "g", "h", "i", "j", "k", "l", "m", "n", "o", "p", "q", "r", "s", "t", "u", "v", "w", "x", "y", "z">>

\* str.lower()
LowerChar(c) ==
  IF \E i \in 1..Len(UpperCase) : UpperCase[i] = c
  THEN LowerCase[CHOOSE i \in 1..Len(UpperCase) : UpperCase[i] = c]
  ELSE c
Lower(text) == [i \in 1..Len(text) |-> LowerChar(text[i])]

\* sub in text
Contains(sub, text) ==
  \E i \in 1..(Len(text) - Len(sub) + 1) :
     SubSeq(text, i, i + Len(sub) - 1) = sub

\* "Became Public Law" and "became public law"
MarkerTitle ==
  <<"B", "e", "c", "a", "m", "e", " ", "P", "u", "b", "l", "i", "c", " ", "L", "a", "w">>
MarkerLower ==
  <<"b", "e", "c", "a", "m", "e", " ", "p", "u", "b", "l", "i", "c", " ", "l", "a", "w">>

\* Latest-action texts of the provider's bills:
\* "Became Public Law 117-58", "BECAME PUBLIC LAW 117-58", "Referred"
TextLaw ==
  <<"B", "e", "c", "a", "m", "e", " ", "P", "u", "b", "l", "i", "c", " ", "L", "a", "w", " ", "1", "1", "7", "-", "5", "8">>
TextLawUpper ==
  <<"B", "E", "C", "A", "M", "E", " ", "P", "U", "B", "L", "I", "C", " ", "L", "A", "W", " ", "1", "1", "7", "-", "5", "8">>
TextReferred ==
  <<"R", "e", "f", "e", "r", "r", "e", "d">>

\* "limit": 250 and the offsets 250, 500, ... of the pagination loop
PageSize == 250
\* all_sponsored[:5] and len(recent_enacted) < 5
SampleSize == 5
\* timedelta(hours=24) of the legislation cache, 86400 seconds of the videos
FreshHours == 24

\* A bill as the provider lists it; latestAction may be missing or null.
Bill(n, action) == [number |-> n, latestAction |-> action]
WithText(text) == Some([text |-> text])

\* The provider's sponsored list of a member, by page offset, when it
\* reports the total T.
ProviderPage(offset, T) ==
  CASE T = 0 -> <<>>
    [] T > 0 /\ offset = 0 ->
         <<Bill(1, WithText(TextReferred)), Bill(2, WithText(TextLaw)),
           Bill(3, None), Bill(10, WithText(TextReferred)),
           Bill(11, None), Bill(12, WithText(TextReferred))>>
    [] T > 0 /\ offset = PageSize ->
         <<Bill(4, WithText(TextLawUpper)), Bill(5, WithText(TextLaw)),
           Bill(6, WithText(TextLaw))>>
    [] OTHER ->
         <<Bill(7, WithText(TextLaw)), Bill(8, WithText(TextLaw)),
           Bill(9, WithText(TextReferred))>>

\* The page offsets a reported total T calls for.
Offsets(T) == {0} \cup {k * PageSize : k \in {j \in 1..2 : j * PageSize < T}}

\* What the provider does on one request: None when the request raises
\* (timeout, connection failure), else the status code of its response.
Outcomes == {None, Some(200), Some(500)}

\* Totals the provider reports, and its cosponsored count.
TotalCounts == {0, 250, 251, 501}
CosponsoredCounts == {7}

\* The provider's behaviour during one legislation-summary request.
ProvidersFor(T) ==
  [total : {T}, out : [Offsets(T) -> Outcomes], cosp : Outcomes,
   cosponsored : CosponsoredCounts]
Providers == UNION {ProvidersFor(T) : T \in TotalCounts}

\* Variant: only the capitalised marker is looked for.
IsEnacted_CaseSensitive(bill) ==
  LET action_text == IF IsNone(bill.latestAction) THEN <<>>
                     ELSE Val(bill.latestAction).text
  IN Contains(MarkerTitle, action_text)

\* "Became Public Law" in action_text
\*   or "became public law" in action_text.lower()
IsEnacted(bill) ==
  LET action_text == IF IsNone(bill.latestAction) THEN <<>>
                     ELSE Val(bill.latestAction).text
  IN \/ Contains(MarkerTitle, action_text)
     \/ Contains(MarkerLower, Lower(action_text))

\* The loop over the bills of one page: count, keep the first five.
RECURSIVE CountEnacted(_, _, _)
CountEnacted(acc, bills, i) ==
  IF i > Len(bills) THEN acc
  ELSE IF IsEnacted(bills[i])
       THEN CountEnacted(
              [acc EXCEPT !.enacted_count = @ + 1,
                          !.recent_enacted =
                             IF Len(@) < SampleSize
                             THEN Append(@, bills[i]) ELSE @],
              bills, i + 1)
       ELSE CountEnacted(acc, bills, i + 1)

\* Variant: the loop stops at the first page that is not answered with 200.
RECURSIVE PageLoop_StopOnFailure(_, _, _)
PageLoop_StopOnFailure(prov, offset, acc) ==
  IF offset >= prov.total THEN acc
  ELSE LET r == prov.out[offset]
           called == [acc EXCEPT !.calls = @ + 1,
                                 !.offsets = Append(@, offset)]
       IN IF IsNone(r) \/ Val(r) # 200 THEN called
          ELSE PageLoop_StopOnFailure(prov, offset + PageSize,
                 CountEnacted(called, ProviderPage(offset, prov.total), 1))

\* while offset < total_count: a request that raises leaves the loop (the
\* enclosing bare except), a response other than 200 is skipped.
RECURSIVE PageLoop(_, _, _)
PageLoop(prov, offset, acc) ==
  IF offset >= prov.total THEN acc
  ELSE LET r == prov.out[offset]
           called == [acc EXCEPT !.calls = @ + 1,
                                 !.offsets = Append(@, offset)]
       IN IF IsNone(r) THEN called
          ELSE IF Val(r) = 200
               THEN PageLoop(prov, offset + PageSize,
                      CountEnacted(called,
                                   ProviderPage(offset, prov.total), 1))
               ELSE PageLoop(prov, offset + PageSize, called)

\* Variant: the whole first page is kept as the sample.
FirstFew_WholePage(s) == s

\* The first SampleSize elements of a list.
FirstFew(s) == SubSeq(s, 1, IF Len(s) < SampleSize THEN Len(s) ELSE SampleSize)

\* Variant: only the first page is asked for.
FetchSponsored_FirstPageOnly(prov) ==
  LET zero == [sponsored_count |-> 0, recent_sponsored |-> <<>>,
               enacted_count |-> 0, recent_enacted |-> <<>>, calls |-> 1,
               offsets |-> <<0>>]
      r == prov.out[0]
  IN IF IsNone(r) \/ Val(r) # 200 THEN zero
     ELSE LET all_sponsored == ProviderPage(0, prov.total)
              first == CountEnacted(
                         [zero EXCEPT !.sponsored_count = prov.total,
                                      !.recent_sponsored =
                                         FirstFew(all_sponsored)],
                         all_sponsored, 1)
          IN first

\* The sponsored part of a refresh (first try block).
FetchSponsored(prov) ==
  LET zero == [sponsored_count |-> 0, recent_sponsored |-> <<>>,
               enacted_count |-> 0, recent_enacted |-> <<>>, calls |-> 1,
               offsets |-> <<0>>]
      r == prov.out[0]
  IN IF IsNone(r) \/ Val(r) # 200 THEN zero
     ELSE LET all_sponsored == ProviderPage(0, prov.total)
              first == CountEnacted(
                         [zero EXCEPT !.sponsored_count = prov.total,
                                      !.recent_sponsored =
                                         FirstFew(all_sponsored)],
                         all_sponsored, 1)
          IN IF prov.total > PageSize
             THEN PageLoop(prov, PageSize, first)
             ELSE first

\* The cosponsored part of a refresh (second try block).
FetchCosponsored(prov) ==
  IF ~IsNone(prov.cosp) /\ Val(prov.cosp) = 200 THEN prov.cosponsored ELSE 0

\* The document a refresh writes to legislation_cache at time t.
CacheData(id, prov, t) ==
  LET s == FetchSponsored(prov)
  IN [bioguide_id |-> id,
      sponsored_count |-> s.sponsored_count,
      cosponsored_count |-> FetchCosponsored(prov),
      enacted_count |-> s.enacted_count,
      recent_sponsored |-> s.recent_sponsored,
      recent_enacted |-> s.recent_enacted,
      cached_at |-> t]

\* Variant: the refresh parameter is not looked at.
ServesCached_IgnoresRefresh(lc, id, refresh, t) ==
  /\ id \in DOMAIN lc
  /\ t - lc[id].cached_at < FreshHours

\* The cached document is served: it exists, refresh is not asked for and it
\* is less than 24 hours old.
ServesCached(lc, id, refresh, t) ==
  /\ id \in DOMAIN lc
  /\ ~refresh
  /\ t - lc[id].cached_at < FreshHours

\* The response fields shared by the cached and the fresh answer.
SummaryBody(doc, cached) ==
  [bioguide_id |-> doc.bioguide_id,
   sponsored_count |-> doc.sponsored_count,
   cosponsored_count |-> doc.cosponsored_count,
   enacted_count |-> doc.enacted_count,
   recent_sponsored |-> doc.recent_sponsored,
   recent_enacted |-> doc.recent_enacted,
   cached |-> cached]

\* Variant: a document that exists is left as it is.
PutDoc_KeepExisting(coll, id, doc) ==
  [k \in (DOMAIN coll) \cup {id} |-> IF k \in DOMAIN coll THEN coll[k] ELSE doc]

\* cache_ref.set(doc)
PutDoc(coll, id, doc) ==
  [k \in (DOMAIN coll) \cup {id} |-> IF k = id THEN doc ELSE coll[k]]

\* The answer to a request for an identifier the store does not hold.
NotFound(op, args) ==
  [op |-> op, args |-> args, slot |-> "none", status |-> 404, fetches |-> 1,
   body |-> <<>>, calls |-> 0, writes |-> 0]

\* GET /api/legislators/{bioguide_id}/legislation-summary
GetLegislationSummary(id, refresh, prov) ==
  /\ IF ~DocExists(store, id)
     THEN /\ last' = NotFound("get_legislation_summary", <<id, refresh>>)
          /\ UNCHANGED legCache
     ELSE IF ServesCached(legCache, id, refresh, now)
     THEN /\ last' = [op |-> "get_legislation_summary",
                      args |-> <<id, refresh>>, slot |-> "none",
                      status |-> 200, fetches |-> 1,
                      body |-> SummaryBody(legCache[id], TRUE)
                                 @@ [cached_at |-> legCache[id].cached_at],
                      calls |-> 0, writes |-> 0]
          /\ UNCHANGED legCache
     ELSE LET doc == CacheData(id, prov, now)
          IN /\ legCache' = PutDoc(legCache, id, doc)
             /\ last' = [op |-> "get_legislation_summary",
                         args |-> <<id, refresh>>, slot |-> "none",
                         status |-> 200, fetches |-> 1,
                         body |-> SummaryBody(doc, FALSE),
                         calls |-> FetchSponsored(prov).calls + 1,
                         offsets |-> FetchSponsored(prov).offsets,
                         writes |-> 1, provider |-> prov]
  /\ UNCHANGED <<store, cache, now, thr, ytCache, ytKey, scriptVars>>

\* Statuses the provider answers a list request with (None: no answer).
ListOutcomes == {None, Some(200), Some(404), Some(429), Some(500)}
LimitParams == {1, 20}
OffsetParams == {0}

\* Variant: a 404 of the provider is raised like any other error status.
ListResponse_NotFoundIsError(op, id, limit, offset, total, r) ==
  LET page == ProviderPage(offset, total)
      base == [op |-> op, args |-> <<id, limit, offset>>, slot |-> "none",
               fetches |-> 1, calls |-> 1, writes |-> 0, provider |-> r]
  IN IF IsNone(r)
     THEN base @@ [status |-> 503, body |-> <<>>]
     ELSE IF Val(r) = 200
     THEN base @@ [status |-> 200,
                   body |-> [bioguide_id |-> id,
                             pagination |-> [count |-> total],
                             bills |-> SubSeq(page, 1,
                                         IF Len(page) < limit THEN Len(page)
                                         ELSE limit)]]
     ELSE base @@ [status |-> Val(r), body |-> <<>>]

\* The sponsored- and cosponsored-legislation handlers share their code:
\* the provider's page on 200, an empty result on 404, the provider's status
\* on another error status, 503 when the request raises.
ListResponse(op, id, limit, offset, total, r) ==
  LET page == ProviderPage(offset, total)
      base == [op |-> op, args |-> <<id, limit, offset>>, slot |-> "none",
               fetches |-> 1, calls |-> 1, writes |-> 0, provider |-> r]
  IN IF IsNone(r)
     THEN base @@ [status |-> 503, body |-> <<>>]
     ELSE IF Val(r) = 200
     THEN base @@ [status |-> 200,
                   body |-> [bioguide_id |-> id,
                             pagination |-> [count |-> total],
                             bills |-> SubSeq(page, 1,
                                         IF Len(page) < limit THEN Len(page)
                                         ELSE limit)]]
     ELSE IF Val(r) = 404
     THEN base @@ [status |-> 200,
                   body |-> [bioguide_id |-> id,
                             pagination |-> [count |-> 0],
                             bills |-> <<>>]]
     ELSE base @@ [status |-> Val(r), body |-> <<>>]

\* GET /api/legislators/{bioguide_id}/sponsored-legislation
GetSponsoredLegislation(id, limit, offset, total, r) ==
  /\ last' = IF ~DocExists(store, id)
             THEN NotFound("get_sponsored_legislation", <<id, limit, offset>>)
             ELSE ListResponse("get_sponsored_legislation",
                               id, limit, offset, total, r)
  /\ UNCHANGED <<store, cache, now, thr, proxyVars, scriptVars>>

\* GET /api/legislators/{bioguide_id}/cosponsored-legislation
GetCosponsoredLegislation(id, limit, offset, total, r) ==
  /\ last' = IF ~DocExists(store, id)
             THEN NotFound("get_cosponsored_legislation",
                           <<id, limit, offset>>)
             ELSE ListResponse("get_cosponsored_legislation",
                               id, limit, offset, total, r)
  /\ UNCHANGED <<store, cache, now, thr, proxyVars, scriptVars>>

\* ------------------------------------------------------------------ YouTube
\* What the video provider does on one request: the request raises, it is
\* answered with a status other than 200, with 200 and no items, or with 200
\* and one item.
VideoOutcomes == {"raises", "failed", "empty", "found"}
VideoProviders ==
  [search : VideoOutcomes \ {"empty"}, channels : VideoOutcomes \ {"raises"},
   playlist : VideoOutcomes]

\* The channel id the search and the videos the playlist answer with.
FoundChannel == "UC-found"
FoundVideos == <<[video_id |-> "v1", title |-> "Floor speech"]>>

\* The answers of get_youtube_videos that carry no videos.
NoVideos(id, refresh, calls) ==
  [op |-> "get_youtube_videos", args |-> <<id, refresh>>, slot |-> "none",
   status |-> 200, fetches |-> 1,
   body |-> [videos |-> <<>>],
   calls |-> calls, writes |-> 0]

\* The cached videos are served: the document exists, refresh is not asked
\* for and it is less than 86400 seconds old.
ServesCachedVideos(yc, id, refresh, t) ==
  /\ id \in DOMAIN yc
  /\ ~refresh
  /\ (t - yc[id].cached_at) * 3600 < FreshHours * 3600

\* GET /api/legislators/{bioguide_id}/youtube-videos
GetYoutubeVideos(id, refresh, yt) ==
  /\ IF ~ytKey
     THEN /\ last' = [NoVideos(id, refresh, 0) EXCEPT !.fetches = 0]
          /\ UNCHANGED ytCache
     ELSE IF ~DocExists(store, id)
     THEN /\ last' = NotFound("get_youtube_videos", <<id, refresh>>)
          /\ UNCHANGED ytCache
     ELSE LET external_ids == StoredDoc(id, store[id]).external_ids
              youtube_channel == external_ids.youtube
              youtube_id == external_ids.youtube_id
              searched == ~TruthyStr(youtube_id) /\ TruthyStr(youtube_channel)
              channel_id == IF searched /\ yt.search = "found"
                            THEN FoundChannel ELSE youtube_id
              n == IF searched THEN 1 ELSE 0
          IN IF ~TruthyStr(youtube_channel) /\ ~TruthyStr(youtube_id)
             THEN /\ last' = NoVideos(id, refresh, 0)
                  /\ UNCHANGED ytCache
             ELSE IF ServesCachedVideos(ytCache, id, refresh, now)
             THEN /\ last' = [NoVideos(id, refresh, 0) EXCEPT
                                !.body = [videos |-> ytCache[id].videos,
                                          cached |-> TRUE]]
                  /\ UNCHANGED ytCache
             ELSE IF searched /\ yt.search = "raises"
             THEN /\ last' = NoVideos(id, refresh, 1)
                  /\ UNCHANGED ytCache
             ELSE IF ~TruthyStr(channel_id)
             THEN /\ last' = NoVideos(id, refresh, n)
                  /\ UNCHANGED ytCache
             ELSE IF yt.channels # "found"
             THEN /\ last' = NoVideos(id, refresh, n + 1)
                  /\ UNCHANGED ytCache
             ELSE IF yt.playlist \in {"raises", "failed"}
             THEN /\ last' = NoVideos(id, refresh, n + 2)
                  /\ UNCHANGED ytCache
             ELSE LET videos == IF yt.playlist = "found" THEN FoundVideos
                                ELSE <<>>
                  IN /\ ytCache' = PutDoc(ytCache, id,
                                     [bioguide_id |-> id, videos |-> videos,
                                      cached_at |-> now,
                                      channel_id |-> channel_id])
                     /\ last' = [NoVideos(id, refresh, n + 2) EXCEPT
                                   !.body = [videos |-> videos,
                                             cached |-> FALSE],
                                   !.writes = 1]
  /\ UNCHANGED <<store, cache, now, thr, legCache, ytKey, scriptVars>>

\* ------------------------------------------------------- proxy specifications
\* Identifiers the proxy endpoints are asked for.
ProxyIds == {"A000001", UnknownId}

\* The process starts with or without a YouTube key and with empty cache
\* collections; the store holds the Person that is asked for, or nobody.
InitProxy ==
  /\ store \in {st \in [PersonIds -> {Absent, 1}] :
                  \A id \in PersonIds \ ProxyIds : st[id] = Absent}
  /\ cache = EmptyCache
  /\ now = 0
  /\ last = Idle
  /\ thr = [w \in Threads |-> IdleThread]
  /\ legCache = <<>>
  /\ ytCache = <<>>
  /\ ytKey \in BOOLEAN
  /\ script = NoScript
  /\ colls = NoColls

\* The legislation-summary endpoint, the clock and the store.
InitLegislation == InitProxy /\ ytKey = TRUE

NextLegislation ==
  \/ \E id \in ProxyIds, refresh \in BOOLEAN, prov \in Providers :
       GetLegislationSummary(id, refresh, prov)
  \/ Tick
  \/ \E id \in ProxyIds \cap PersonIds : StoreWrite(id, 1)
  \/ \E id \in ProxyIds \cap PersonIds : StoreDelete(id)

SpecLegislation == InitLegislation /\ [][NextLegislation]_vars

\* All four proxy endpoints; here the legislation provider answers every
\* request of a summary and reports an empty list.
AnsweringProviders ==
  {p \in ProvidersFor(0) : p.cosp = Some(200) /\ p.out[0] = Some(200)}

NextProxy ==
  \/ \E id \in ProxyIds, refresh \in BOOLEAN, prov \in AnsweringProviders :
       GetLegislationSummary(id, refresh, prov)
  \/ \E id \in ProxyIds, limit \in LimitParams, offset \in OffsetParams,
        total \in TotalCounts, r \in ListOutcomes :
       GetSponsoredLegislation(id, limit, offset, total, r)
  \/ \E id \in ProxyIds, limit \in LimitParams, offset \in OffsetParams,
        total \in TotalCounts, r \in ListOutcomes :
       GetCosponsoredLegislation(id, limit, offset, total, r)
  \/ \E id \in ProxyIds, refresh \in BOOLEAN, yt \in VideoProviders :
       GetYoutubeVideos(id, refresh, yt)
  \/ Tick
  \/ \E id \in ProxyIds \cap PersonIds : \E rev \in Revs(id) :
       StoreWrite(id, rev)
  \/ \E id \in ProxyIds \cap PersonIds : StoreDelete(id)

SpecProxy == InitProxy /\ [][NextProxy]_vars

\* ------------------------------------------------------------- bulk refresh
\* Variant: every legislator is taken for a refresh.
NeedsRefresh_Always(lc, id, t) == TRUE

\* The cache document of a legislator is missing or more than 24 hours old.
NeedsRefresh(lc, id, t) ==
  \/ id \notin DOMAIN lc
  \/ t - lc[id].cached_at > FreshHours

\* for leg in legislators: collect, and stop once limit are collected.
RECURSIVE SelectToRefresh(_, _, _, _, _, _)
SelectToRefresh(st, lc, t, limit, i, to_refresh) ==
  IF i > Len(IdOrder) THEN to_refresh
  ELSE IF st[IdOrder[i]] = Absent
       THEN SelectToRefresh(st, lc, t, limit, i + 1, to_refresh)
       ELSE LET found == IF NeedsRefresh(lc, IdOrder[i], t)
                         THEN Append(to_refresh, IdOrder[i])
                         ELSE to_refresh
            IN IF Len(found) >= limit THEN found
               ELSE SelectToRefresh(st, lc, t, limit, i + 1, found)

\* to_refresh[:limit] for a limit that is not negative
Prefix(s, limit) == SubSeq(s, 1, IF Len(s) < limit THEN Len(s) ELSE limit)

\* for bioguide_id in to_refresh[:limit]: the summary with refresh=True
\* writes the cache document of each in turn.
RECURSIVE RefreshEach(_, _, _, _, _)
RefreshEach(lc, ids, i, prov, t) ==
  IF i > Len(ids) THEN lc
  ELSE RefreshEach(PutDoc(lc, ids[i], CacheData(ids[i], prov, t)),
                   ids, i + 1, prov, t)

\* Limits the bulk refresh is called with (the query has no lower bound).
BulkLimits == {0, 1, 2}

\* The provider during a bulk refresh: it answers, or its sponsored request
\* raises.
BulkProviders ==
  {p \in ProvidersFor(250) :
     p.cosp = Some(200) /\ p.out[0] \in {None, Some(200)}}

\* POST /api/cache/refresh-legislation
RefreshAllLegislationCache(limit, prov) ==
  LET to_refresh == SelectToRefresh(store, legCache, now, limit, 1, <<>>)
      refreshed == Prefix(to_refresh, limit)
  IN /\ legCache' = RefreshEach(legCache, refreshed, 1, prov, now)
     /\ last' = [op |-> "refresh_all_legislation_cache", args |-> <<limit>>,
                 slot |-> "none", status |-> 200, fetches |-> 1,
                 body |-> [refreshed |-> refreshed,
                           count |-> Len(refreshed),
                           remaining |-> Len(to_refresh) - Len(refreshed)],
                 calls |-> Len(refreshed) * (FetchSponsored(prov).calls + 1),
                 writes |-> Len(refreshed)]
     /\ UNCHANGED <<store, cache, now, thr, ytCache, ytKey, scriptVars>>

NextBulk ==
  \/ \E limit \in BulkLimits, prov \in BulkProviders :
       RefreshAllLegislationCache(limit, prov)
  \/ \E id \in PersonIds, prov \in BulkProviders :
       GetLegislationSummary(id, FALSE, prov)
  \/ Tick
  \/ \E id \in PersonIds : StoreWrite(id, 1)
  \/ \E id \in PersonIds : StoreDelete(id)

SpecBulk == Init /\ [][NextBulk]_vars

\* ------------------------------------- import_legislation.py: one legislator
\* What the provider does on one request of the script.
FetchOutcomes == {None, Some(200), Some(429), Some(500)}

\* time.sleep(60) after a rate-limit response, in seconds
RateLimitPause == 60

\* The locals of fetch_legislation_data when it is entered.
FetchFrame(id, depth, retries, slept) ==
  [pc |-> "sponsored", id |-> id, depth |-> depth, retries |-> retries,
   slept |-> slept, total |-> 0, offset |-> 0,
   acc |-> [sponsored_count |-> 0, recent_sponsored |-> <<>>,
            enacted_count |-> 0, recent_enacted |-> <<>>, calls |-> 0,
            offsets |-> <<>>, answers |-> <<>>],
   cosponsored_count |-> 0]

\* main(): the next legislator whose cache check_cache does not accept.
StartFetch(id, force) ==
  /\ script.pc = "idle"
  /\ DocExists(store, id)
  /\ ~ServesCached(legCache, id, force, now)
  /\ script' = FetchFrame(id, 1, 0, 0)
  /\ UNCHANGED <<store, cache, now, last, thr, proxyVars, colls>>

\* elif response.status_code == 429: sleep, then call the function again;
\* at the recursion limit the call raises and the except clause goes on.
RateLimited(f) ==
  IF f.depth < RecursionLimit
  THEN FetchFrame(f.id, f.depth + 1, f.retries + 1, f.slept + RateLimitPause)
  ELSE [f EXCEPT !.pc = "cosponsored", !.slept = @ + RateLimitPause]

\* The first request for the sponsored list; T is the total it reports.
FetchSponsoredFirst(r, T) ==
  /\ script.pc = "sponsored"
  /\ script' =
       LET called == [script EXCEPT !.acc.calls = @ + 1,
                                    !.acc.offsets = Append(@, 0),
                                    !.acc.answers = Append(@, r)]
       IN IF IsNone(r) THEN [called EXCEPT !.pc = "cosponsored"]
          ELSE IF Val(r) = 200
          THEN LET all_sponsored == ProviderPage(0, T)
                   acc == CountEnacted(
                            [called.acc EXCEPT
                               !.sponsored_count = T,
                               !.recent_sponsored = FirstFew(all_sponsored)],
                            all_sponsored, 1)
               IN [called EXCEPT !.acc = acc, !.total = T,
                                 !.offset = PageSize,
                                 !.pc = IF T > PageSize THEN "pages"
                                        ELSE "cosponsored"]
          ELSE IF Val(r) = 429 THEN RateLimited(called)
          ELSE [called EXCEPT !.pc = "cosponsored"]
  /\ UNCHANGED <<store, cache, now, last, thr, proxyVars, colls>>

\* One round of "while offset < total_count".
FetchSponsoredPage(r) ==
  /\ script.pc = "pages"
  /\ script' =
       LET called == [script EXCEPT !.acc.calls = @ + 1,
                                    !.acc.offsets = Append(@, script.offset),
                                    !.acc.answers = Append(@, r)]
           offset == script.offset + PageSize
           pc == IF offset < script.total THEN "pages" ELSE "cosponsored"
       IN IF IsNone(r) THEN [called EXCEPT !.pc = "cosponsored"]
          ELSE IF Val(r) = 200
          THEN [called EXCEPT
                  !.acc = CountEnacted(called.acc,
                            ProviderPage(script.offset, script.total), 1),
                  !.offset = offset, !.pc = pc]
          ELSE [called EXCEPT !.offset = offset, !.pc = pc]
  /\ UNCHANGED <<store, cache, now, last, thr, proxyVars, colls>>

\* The request for the cosponsored count: 429 sleeps and does not ask again.
FetchCosponsoredCount(r) ==
  /\ script.pc = "cosponsored"
  /\ script' =
       LET called == [script EXCEPT !.acc.calls = @ + 1, !.pc = "save"]
       IN IF IsNone(r) THEN called
          ELSE IF Val(r) = 200
          THEN [called EXCEPT !.cosponsored_count = 7]
          ELSE IF Val(r) = 429
          THEN [called EXCEPT !.slept = @ + RateLimitPause]
          ELSE called
  /\ UNCHANGED <<store, cache, now, last, thr, proxyVars, colls>>

\* save_to_firestore: the cache document and the legislator's derived fields.
SaveToFirestore ==
  /\ script.pc = "save"
  /\ LET doc == [bioguide_id |-> script.id,
                 sponsored_count |-> script.acc.sponsored_count,
                 cosponsored_count |-> script.cosponsored_count,
                 enacted_count |-> script.acc.enacted_count,
                 recent_sponsored |-> script.acc.recent_sponsored,
                 recent_enacted |-> script.acc.recent_enacted,
                 cached_at |-> now]
     IN /\ legCache' = PutDoc(legCache, script.id, doc)
        /\ colls' = [colls EXCEPT !.derived =
                       PutDoc(@, script.id,
                              [sponsored_count |-> doc.sponsored_count,
                               cosponsored_count |-> doc.cosponsored_count,
                               enacted_count |-> doc.enacted_count,
                               legislation_updated_at |-> now])]
  /\ script' = [pc |-> "saved", id |-> script.id,
                retries |-> script.retries, slept |-> script.slept,
                calls |-> script.acc.calls, total |-> script.total,
                offsets |-> script.acc.offsets,
                answers |-> script.acc.answers]
  /\ UNCHANGED <<store, cache, now, last, thr, ytCache, ytKey>>

\* main() goes on to the next legislator.
NextLegislator ==
  /\ script.pc = "saved"
  /\ script' = NoScript
  /\ UNCHANGED <<store, cache, now, last, thr, proxyVars, colls>>

\* The script runs against a store that holds one legislator.
InitFetch == Init /\ store = [id \in PersonIds |->
                                IF id = "A000001" THEN 1 ELSE Absent]

NextFetch ==
  \/ \E id \in PersonIds, force \in BOOLEAN : StartFetch(id, force)
  \/ \E r \in FetchOutcomes, T \in TotalCounts : FetchSponsoredFirst(r, T)
  \/ \E r \in FetchOutcomes : FetchSponsoredPage(r)
  \/ \E r \in FetchOutcomes : FetchCosponsoredCount(r)
  \/ SaveToFirestore
  \/ NextLegislator

SpecFetch == InitFetch /\ [][NextFetch]_vars

\* ---------------------------------------------------------------- find-rep
\* Names are sequences of characters, so that replace, strip, split, lower
\* and "in" are computed.
\* text.replace(sub, "")
RECURSIVE RemoveAll(_, _)
RemoveAll(sub, text) ==
  IF Len(text) < Len(sub) THEN text
  ELSE IF SubSeq(text, 1, Len(sub)) = sub
       THEN RemoveAll(sub, SubSeq(text, Len(sub) + 1, Len(text)))
       ELSE <<text[1]>> \o RemoveAll(sub, Tail(text))

\* text.strip()
RECURSIVE LStrip(_)
LStrip(text) ==
  IF text # <<>> /\ text[1] = " " THEN LStrip(Tail(text)) ELSE text
RECURSIVE RStrip(_)
RStrip(text) ==
  IF text # <<>> /\ text[Len(text)] = " "
  THEN RStrip(SubSeq(text, 1, Len(text) - 1)) ELSE text
Strip(text) == RStrip(LStrip(text))

\* text.split()
RECURSIVE SplitFrom(_, _, _, _)
SplitFrom(text, i, word, parts) ==
  IF i > Len(text)
  THEN IF word = <<>> THEN parts ELSE Append(parts, word)
  ELSE IF text[i] = " "
       THEN SplitFrom(text, i + 1, <<>>,
                      IF word = <<>> THEN parts ELSE Append(parts, word))
       ELSE SplitFrom(text, i + 1, Append(word, text[i]), parts)
Split(text) == SplitFrom(text, 1, <<>>, <<>>)

\* "Rep. ", "Sen. " and the suffixes that are not taken for a surname
PrefixRep == <<"R", "e", "p", ".", " ">>
PrefixSen == <<"S", "e", "n", ".", " ">>
Suffixes ==
  {<<"j", "r", ".">>,
   <<"j", "r">>,
   <<"s", "r", ".">>,
   <<"s", "r">>,
   <<"i", "i">>,
   <<"i", "i", "i">>,
   <<"i", "v">>}

\* The surname find_rep takes from a provider name.
ExtractLastName(name) ==
  LET clean_name == Strip(RemoveAll(PrefixSen, RemoveAll(PrefixRep, name)))
      name_parts == Split(clean_name)
      last_name == IF Len(name_parts) > 0 THEN name_parts[Len(name_parts)]
                   ELSE <<>>
  IN IF Lower(last_name) \in Suffixes
     THEN IF Len(name_parts) > 1 THEN name_parts[Len(name_parts) - 1]
          ELSE <<>>
     ELSE last_name

\* last_name and full_name of the stored documents, as characters:
\* "Baker" / "Ann Baker" and "Adams" / "Bob Adams".
PersonName(id) ==
  IF id = "A000001"
  THEN [last_name |-> <<"B", "a", "k", "e", "r">>,
        full_name |-> <<"A", "n", "n", " ", "B", "a", "k", "e", "r">>]
  ELSE [last_name |-> <<"A", "d", "a", "m", "s">>,
        full_name |-> <<"B", "o", "b", " ", "A", "d", "a", "m", "s">>]

\* Entries the postal-code provider returns:
\* "Rep. Ann Baker", "Sen. Bob Adams Jr.", "Rep. Zed Nobody", "Rep. Cy A"
ProviderEntries ==
  {[name |-> <<"R", "e", "p", ".", " ", "A", "n", "n", " ", "B", "a", "k", "e", "r">>,
    state |-> "CA"],
   [name |-> <<"S", "e", "n", ".", " ", "B", "o", "b", " ", "A", "d", "a", "m", "s", " ", "J", "r", ".">>,
    state |-> "CA"],
   [name |-> <<"R", "e", "p", ".", " ", "Z", "e", "d", " ", "N", "o", "b", "o", "d", "y">>,
    state |-> "CA"],
   [name |-> <<"R", "e", "p", ".", " ", "C", "y", " ", "A">>,
    state |-> "CA"]}

\* The result lists of the provider: up to two entries.
MaxResults == 2
ResultLists ==
  UNION {[1..n -> ProviderEntries] : n \in 0..MaxResults}

\* What the provider does: the request raises (None), or it answers with a
\* status and a body that is JSON with a result list or is not JSON (None).
FindResponses ==
  {None} \cup {Some([status |-> 404, json |-> None])}
         \cup {Some([status |-> 200, json |-> j]) :
                 j \in {None} \cup {Some(l) : l \in ResultLists}}

\* The test of line 785 on one stored document.
NameMatches(last_name, id) ==
  \/ Lower(last_name) = Lower(PersonName(id).last_name)
  \/ Contains(Lower(last_name), Lower(PersonName(id).full_name))

\* Variant: every same-state document that matches is appended.
RECURSIVE MatchEntry_NoBreak(_, _, _)
MatchEntry_NoBreak(st, rep, i) ==
  IF i > Len(IdOrder) THEN <<>>
  ELSE LET id == IdOrder[i]
           rest == MatchEntry_NoBreak(st, rep, i + 1)
       IN IF /\ st[id] # Absent
             /\ StoredDoc(id, st[id]).state = rep.state
             /\ NameMatches(ExtractLastName(rep.name), id)
          THEN <<[bioguide_id |-> id, state |-> rep.state,
                  chamber |-> StoredDoc(id, st[id]).chamber,
                  party |-> StoredDoc(id, st[id]).party,
                  api_name |-> rep.name]>> \o rest
          ELSE rest

\* for doc in query: the first same-state document that matches, then break.
RECURSIVE MatchEntry(_, _, _)
MatchEntry(st, rep, i) ==
  IF i > Len(IdOrder) THEN <<>>
  ELSE LET id == IdOrder[i]
       IN IF /\ st[id] # Absent
             /\ StoredDoc(id, st[id]).state = rep.state
             /\ NameMatches(ExtractLastName(rep.name), id)
          THEN <<[bioguide_id |-> id, state |-> rep.state,
                  chamber |-> StoredDoc(id, st[id]).chamber,
                  party |-> StoredDoc(id, st[id]).party,
                  api_name |-> rep.name]>>
          ELSE MatchEntry(st, rep, i + 1)

\* for rep in results
RECURSIVE MatchAll(_, _, _)
MatchAll(st, results, i) ==
  IF i > Len(results) THEN <<>>
  ELSE MatchEntry(st, results[i], 1) \o MatchAll(st, results, i + 1)

ZipParams == {"94110"}

\* GET /api/find-rep
FindRep(zip, r) ==
  LET base == [op |-> "find_rep", args |-> <<zip>>, slot |-> "none",
               fetches |-> 0, calls |-> 1, writes |-> 0, provider |-> r]
  IN /\ last' =
          IF IsNone(r) THEN base @@ [status |-> 500, body |-> <<>>]
          ELSE IF Val(r).status # 200
          THEN base @@ [status |-> Val(r).status, body |-> <<>>]
          ELSE IF IsNone(Val(r).json)
          THEN base @@ [status |-> 500, body |-> <<>>]
          ELSE LET results == Val(Val(r).json)
               IN IF Len(results) = 0
                  THEN base @@ [status |-> 200,
                                body |-> [zip |-> zip,
                                          representatives |-> <<>>,
                                          raw_results |-> <<>>]]
                  ELSE base @@
                         [status |-> 200, fetches |-> Len(results),
                          body |-> [zip |-> zip,
                                    representatives |->
                                      MatchAll(store, results, 1),
                                    raw_results |-> results]]
     /\ UNCHANGED <<store, cache, now, thr, proxyVars, scriptVars>>

NextFindRep ==
  \/ \E zip \in ZipParams, r \in FindResponses : FindRep(zip, r)
  \/ \E id \in PersonIds : \E rev \in Revs(id) : StoreWrite(id, rev)
  \/ \E id \in PersonIds : StoreDelete(id)

\* The lookup runs against a store that holds both legislators at first.
InitFindRep == Init /\ \A id \in PersonIds : store[id] = 1

SpecFindRep == InitFindRep /\ [][NextFindRep]_vars

\* ------------------------------ import_legislators.py, import_governors.py
\* The legislators collection also holds the governors, keyed GOV-<state>.
GovernorIds == {"GOV-CA", "GOV-NY"}
ImportIds == PersonIds \cup GovernorIds

\* f"GOV-{state}"
GovId(state) == IF state = "CA" THEN "GOV-CA" ELSE "GOV-NY"

\* Raw records of legislators-current.json: the bioguide id and the types of
\* the terms, oldest first.
RawLegislators ==
  [senA |-> [bioguide |-> "A000001", terms |-> <<"rep", "sen">>],
   repA |-> [bioguide |-> "A000001", terms |-> <<"sen", "rep">>],
   senB |-> [bioguide |-> "B000002", terms |-> <<"sen">>],
   noTerms |-> [bioguide |-> "B000002", terms |-> <<>>],
   other |-> [bioguide |-> "B000002", terms |-> <<"sen", "viceprez">>]]

\* The source files a run of import_legislators may find.
LegislatorData ==
  {<<RawLegislators.senA, RawLegislators.senB>>,
   <<RawLegislators.repA, RawLegislators.noTerms>>,
   <<RawLegislators.other, RawLegislators.senA>>,
   <<>>}

\* Raw records of governors.json: the states of the terms, oldest first.
RawGovernors ==
  [ca |-> [name |-> "Adams", terms |-> <<"NY", "CA">>],
   ca2 |-> [name |-> "Baker", terms |-> <<"CA">>],
   ny |-> [name |-> "Baker", terms |-> <<"NY">>],
   noTerms |-> [name |-> "Adams", terms |-> <<>>]]

GovernorData ==
  {<<RawGovernors.ca, RawGovernors.ny>>,
   <<RawGovernors.ca, RawGovernors.ca2>>,
   <<RawGovernors.ny, RawGovernors.noTerms>>,
   <<RawGovernors.ca2>>}

\* The document with the given fields, as a revision of its identifier.
RevWith(id, chamber, last_name) ==
  CHOOSE rev \in Revs(id) :
    /\ StoredDoc(id, rev).chamber = chamber
    /\ StoredDoc(id, rev).last_name = last_name

\* extract_legislator_data: None when there is no term or the last term is
\* neither "sen" nor "rep".
extract_legislator_data(legislator) ==
  LET terms == legislator.terms
      term_type == terms[Len(terms)]
      id == legislator.bioguide
      last_name == StoredDoc(id, 1).last_name
  IN IF Len(terms) = 0 THEN None
     ELSE IF term_type = "sen"
     THEN Some([bioguide_id |-> id,
                rev |-> RevWith(id, "Senate", last_name)])
     ELSE IF term_type = "rep"
     THEN Some([bioguide_id |-> id,
                rev |-> RevWith(id, "House", last_name)])
     ELSE None

\* extract_governor_data: None when there is no term; the identifier is
\* made from the state of the last term.
extract_governor_data(governor) ==
  LET terms == governor.terms
      id == GovId(terms[Len(terms)])
  IN IF Len(terms) = 0 THEN None
     ELSE Some([bioguide_id |-> id,
                rev |-> RevWith(id, "Governor", governor.name)])

\* The documents a run builds from its source file, skips dropped.
RECURSIVE ExtractLegislators(_, _)
ExtractLegislators(raw, i) ==
  IF i > Len(raw) THEN <<>>
  ELSE LET d == extract_legislator_data(raw[i])
       IN (IF IsNone(d) THEN <<>> ELSE <<Val(d)>>)
            \o ExtractLegislators(raw, i + 1)

RECURSIVE ExtractGovernors(_, _)
ExtractGovernors(raw, i) ==
  IF i > Len(raw) THEN <<>>
  ELSE LET d == extract_governor_data(raw[i])
       IN (IF IsNone(d) THEN <<>> ELSE <<Val(d)>>)
            \o ExtractGovernors(raw, i + 1)

\* for doc in db.collection("legislators").stream(): doc.reference.delete()
DeleteAll(st) == [id \in DOMAIN st |-> Absent]

\* Variant: clearing the governors clears the whole collection.
DeleteGovernors_All(st) == [id \in DOMAIN st |-> Absent]

\* ... .where("chamber", "==", "Governor").stream(): doc.reference.delete()
DeleteGovernors(st) ==
  [id \in DOMAIN st |->
     IF st[id] # Absent /\ StoredDoc(id, st[id]).chamber = "Governor"
     THEN Absent ELSE st[id]]

\* Variant: a document that exists is not written again.
RECURSIVE SetAll_KeepExisting(_, _, _)
SetAll_KeepExisting(st, docs, i) ==
  IF i > Len(docs) THEN st
  ELSE SetAll_KeepExisting(
         IF st[docs[i].bioguide_id] # Absent THEN st
         ELSE [st EXCEPT ![docs[i].bioguide_id] = docs[i].rev],
         docs, i + 1)

\* for legislator in legislators: document(bioguide_id).set(legislator)
RECURSIVE SetAll(_, _, _)
SetAll(st, docs, i) ==
  IF i > Len(docs) THEN st
  ELSE SetAll([st EXCEPT ![docs[i].bioguide_id] = docs[i].rev], docs, i + 1)

\* set() and delete() replace the whole document: the fields other scripts
\* added to the documents with these identifiers are gone.
DropFields(c, ids) ==
  [c EXCEPT
     !.derived = [k \in (DOMAIN @) \ ids |-> @[k]],
     !.scores = [k \in (DOMAIN @) \ ids |-> @[k]]]

\* The identifiers a run deletes or writes.
Touched(before, after) == {id \in DOMAIN before : before[id] # after[id]}
DocIds(docs) == {docs[i].bioguide_id : i \in 1..Len(docs)}

\* What a run leaves behind for inspection.
Ran(op, data, clear, failed, docs) ==
  [pc |-> "ran", op |-> op, data |-> data, clear |-> clear,
   failed |-> failed, written |-> docs, before |-> store,
   collsBefore |-> colls]

\* The store after a run of import_legislators on the given source file.
AfterImportLegislators(st, data) ==
  SetAll(DeleteAll(st), ExtractLegislators(data, 1), 1)

\* Variant: --clear empties the collection, as import_legislators does.
AfterImportGovernors_ClearAll(st, data, clear_existing) ==
  SetAll(IF clear_existing THEN DeleteAll(st) ELSE st,
         ExtractGovernors(data, 1), 1)

\* The store after a run of import_governors.
AfterImportGovernors(st, data, clear_existing) ==
  SetAll(IF clear_existing THEN DeleteGovernors(st) ELSE st,
         ExtractGovernors(data, 1), 1)

\* What happens to the requests of a run: all are answered, or one fails.
LegislatorFetches == {"ok", "legislators", "social"}
GovernorLoads == {"ok", "governors"}

\* python import_legislators.py: both fetches come before the clearing.
ImportLegislators(data, fetched) ==
  LET docs == ExtractLegislators(data, 1)
      after == AfterImportLegislators(store, data)
  IN /\ script.pc \in {"idle", "ran"}
     /\ IF fetched # "ok"
        THEN /\ script' = Ran("import_legislators", data, TRUE, fetched, <<>>)
             /\ UNCHANGED <<store, colls>>
        ELSE /\ store' = after
             /\ colls' = DropFields(colls, {id \in DOMAIN store :
                                              store[id] # Absent}
                                            \cup DocIds(docs))
             /\ script' = Ran("import_legislators", data, TRUE, "ok", docs)
     /\ UNCHANGED <<cache, now, last, thr, proxyVars>>

\* python import_governors.py [--clear]
ImportGovernors(data, clear_existing, loaded) ==
  LET docs == ExtractGovernors(data, 1)
      after == AfterImportGovernors(store, data, clear_existing)
  IN /\ script.pc \in {"idle", "ran"}
     /\ IF loaded # "ok"
        THEN /\ script' = Ran("import_governors", data, clear_existing,
                              loaded, <<>>)
             /\ UNCHANGED <<store, colls>>
        ELSE /\ store' = after
             /\ colls' = DropFields(colls,
                           DocIds(docs) \cup
                           (IF clear_existing
                            THEN Touched(store, DeleteGovernors(store))
                            ELSE {}))
             /\ script' = Ran("import_governors", data, clear_existing,
                              "ok", docs)
     /\ UNCHANGED <<cache, now, last, thr, proxyVars>>

\* --------------------------------------------------- import_committees.py
\* Committee identifiers are sequences of characters: "HSAG", "SSAF", and
\* "HSAG03" for subcommittee "03" of "HSAG".  "" is a missing identifier.
HSAG == <<"H", "S", "A", "G">>
SSAF == <<"S", "S", "A", "F">>
Sub03 == <<"0", "3">>
NoId == <<>>

\* committees-current.json
CommitteeData ==
  {<<[thomas_id |-> HSAG, name |-> "Agriculture",
      subcommittees |-> <<[thomas_id |-> Sub03, name |-> "Forestry"]>>],
     [thomas_id |-> NoId, name |-> "Nameless", subcommittees |-> <<>>]>>,
   <<[thomas_id |-> SSAF, name |-> "Agriculture, Nutrition",
      subcommittees |-> <<>>]>>}

\* committee-membership-current.json, in the order of its keys
MembershipData ==
  {<<[committee_id |-> HSAG,
      members |-> <<[bioguide |-> "A000001", rank |-> 2, title |-> ""],
                    [bioguide |-> "B000002", rank |-> 1, title |-> "Chair"]>>],
     [committee_id |-> HSAG \o Sub03,
      members |-> <<[bioguide |-> "A000001", rank |-> 1, title |-> ""]>>],
     [committee_id |-> SSAF,
      members |-> <<[bioguide |-> "A000001", rank |-> 0, title |-> "Chair"],
                    [bioguide |-> "", rank |-> 1, title |-> ""]>>]>>,
   <<[committee_id |-> SSAF,
      members |-> <<[bioguide |-> "B000002", rank |-> 1, title |-> ""]>>]>>}

\* The committees collection after the loop of lines 53-78.
RECURSIVE SetCommittees(_, _, _)
SetCommittees(coll, data, i) ==
  IF i > Len(data) THEN coll
  ELSE IF data[i].thomas_id = NoId THEN SetCommittees(coll, data, i + 1)
       ELSE SetCommittees(
              PutDoc(coll, data[i].thomas_id,
                     [thomas_id |-> data[i].thomas_id,
                      name |-> data[i].name,
                      subcommittees |-> data[i].subcommittees]),
              data, i + 1)

\* committee_names: identifier -> name, subcommittees under parent + own id
RECURSIVE SubNames(_, _, _, _)
SubNames(names, parent, subs, i) ==
  IF i > Len(subs) THEN names
  ELSE SubNames(PutDoc(names, parent \o subs[i].thomas_id, subs[i].name),
                parent, subs, i + 1)
RECURSIVE CommitteeNames(_, _, _)
CommitteeNames(names, data, i) ==
  IF i > Len(data) THEN names
  ELSE IF data[i].thomas_id = NoId THEN CommitteeNames(names, data, i + 1)
       ELSE CommitteeNames(
              SubNames(PutDoc(names, data[i].thomas_id, data[i].name),
                       data[i].thomas_id, data[i].subcommittees, 1),
              data, i + 1)

\* dict.get(key, default)
GetOr(d, key, default) == IF key \in DOMAIN d THEN d[key] ELSE default

\* One assignment of a member (lines 110-139).
Assignment(names, committee_id, member) ==
  LET is_subcommittee == Len(committee_id) > 4
      parent_id == SubSeq(committee_id, 1, 4)
  IN [committee_id |-> committee_id,
      committee_name |-> GetOr(names, committee_id, committee_id),
      is_subcommittee |-> is_subcommittee,
      parent_committee_id |-> IF is_subcommittee THEN Some(parent_id)
                              ELSE None,
      parent_committee_name |-> IF is_subcommittee
                                THEN Some(GetOr(names, parent_id, ""))
                                ELSE None,
      rank |-> member.rank, title |-> member.title]

\* member_committees: bioguide -> assignments, in the order of the file
RECURSIVE AddMembers(_, _, _, _, _)
AddMembers(mc, names, committee_id, members, i) ==
  IF i > Len(members) THEN mc
  ELSE LET bioguide == members[i].bioguide
       IN IF ~TruthyStr(bioguide)
          THEN AddMembers(mc, names, committee_id, members, i + 1)
          ELSE AddMembers(
                 PutDoc(mc, bioguide,
                        Append(GetOr(mc, bioguide, <<>>),
                               Assignment(names, committee_id, members[i]))),
                 names, committee_id, members, i + 1)
RECURSIVE MemberCommittees(_, _, _, _)
MemberCommittees(mc, names, data, i) ==
  IF i > Len(data) THEN mc
  ELSE MemberCommittees(
         AddMembers(mc, names, data[i].committee_id, data[i].members, 1),
         names, data, i + 1)

\* sort_key: (sub_order, title_order, rank or 999), compared as a tuple
NoRank == 999
SortKey(a) ==
  (IF a.is_subcommittee THEN 1 ELSE 0) * 2 * (NoRank + 1)
    + (IF TruthyStr(a.title) THEN 0 ELSE 1) * (NoRank + 1)
    + (IF a.rank # 0 THEN a.rank ELSE NoRank)

\* assignments.sort(key=sort_key): stable
RECURSIVE InsertAssignment(_, _)
InsertAssignment(x, sorted) ==
  IF sorted = <<>> THEN <<x>>
  ELSE IF SortKey(x) < SortKey(sorted[1]) THEN <<x>> \o sorted
       ELSE <<sorted[1]>> \o InsertAssignment(x, Tail(sorted))
RECURSIVE SortAssignments(_, _)
SortAssignments(list, i) ==
  IF i = 0 THEN <<>>
  ELSE InsertAssignment(list[i], SortAssignments(list, i - 1))

\* Variant: the new committees are added to the old ones.
AfterImportCommitteesOnly_NoClear(c, cdata) ==
  [c EXCEPT !.committees = SetCommittees(@, cdata, 1)]

\* import_committees(): clear, then write.
AfterImportCommitteesOnly(c, cdata) ==
  [c EXCEPT !.committees = SetCommittees(<<>>, cdata, 1)]

\* import_membership(): clear, then one document per member.
AfterImportMembership(c, cdata, mdata) ==
  LET names == CommitteeNames(<<>>, cdata, 1)
      mc == MemberCommittees(<<>>, names, mdata, 1)
  IN [c EXCEPT !.committee_memberships =
        [b \in DOMAIN mc |->
           [bioguide_id |-> b,
            committees |-> SortAssignments(mc[b], Len(mc[b]))]]]

CommitteeFetches == {"ok", "committees", "membership"}

\* python import_committees.py: import_committees(), then
\* import_membership(); each fetches its file first and raises on failure.
ImportCommittees(cdata, mdata, fetched) ==
  /\ script.pc \in {"idle", "ran"}
  /\ colls' = IF fetched = "committees" THEN colls
              ELSE IF fetched = "membership"
              THEN AfterImportCommitteesOnly(colls, cdata)
              ELSE AfterImportMembership(
                     AfterImportCommitteesOnly(colls, cdata), cdata, mdata)
  /\ script' = Ran("import_committees", <<cdata, mdata>>, TRUE, fetched,
                   <<>>)
  /\ UNCHANGED <<store, cache, now, last, thr, proxyVars>>

\* ----------------------------------------------------- import_ideology.py
\* external_ids.govtrack of the stored documents; governors have none (0).
GovtrackOf(id) ==
  CASE id = "A000001" -> 412001
    [] id = "B000002" -> 412002
    [] OTHER -> 0

\* sponsorshipanalysis_h.txt and sponsorshipanalysis_s.txt, scores in
\* hundredths; an empty ideology column is None.
HouseScores ==
  <<[govtrack_id |-> 412002, ideology |-> Some(30), leadership |-> Some(50)]>>
SenateScores ==
  <<[govtrack_id |-> 412001, ideology |-> Some(70), leadership |-> Some(20)],
    [govtrack_id |-> 412009, ideology |-> None, leadership |-> None]>>

\* fetch_sponsorship_analysis: the rows, or [] when the request fails.
fetch_sponsorship_analysis(rows, ok) == IF ok THEN rows ELSE <<>>

\* scores_by_govtrack
RECURSIVE ScoresByGovtrack(_, _, _)
ScoresByGovtrack(lookup, members, i) ==
  IF i > Len(members) THEN lookup
  ELSE ScoresByGovtrack(
         IF IsNone(members[i].ideology) THEN lookup
         ELSE PutDoc(lookup, members[i].govtrack_id,
                     [ideology |-> members[i].ideology,
                      leadership |-> members[i].leadership]),
         members, i + 1)

\* python import_ideology.py: update the documents that have a score.
ImportIdeology(house_ok, senate_ok) ==
  LET all_members == fetch_sponsorship_analysis(HouseScores, house_ok)
                       \o fetch_sponsorship_analysis(SenateScores, senate_ok)
      lookup == ScoresByGovtrack(<<>>, all_members, 1)
      updated == {id \in DOMAIN store :
                    /\ store[id] # Absent
                    /\ GovtrackOf(id) # 0
                    /\ GovtrackOf(id) \in DOMAIN lookup}
  IN /\ script.pc \in {"idle", "ran"}
     /\ colls' = [colls EXCEPT !.scores =
                    [id \in (DOMAIN @) \cup updated |->
                       IF id \in updated
                       THEN [ideology_score |->
                               Val(lookup[GovtrackOf(id)].ideology),
                             leadership_score |->
                               lookup[GovtrackOf(id)].leadership]
                       ELSE @[id]]]
     /\ script' = Ran("import_ideology", <<HouseScores, SenateScores>>,
                      FALSE,
                      IF ~house_ok THEN "house"
                      ELSE IF ~senate_ok THEN "senate" ELSE "ok",
                      <<>>)
     /\ UNCHANGED <<store, cache, now, last, thr, proxyVars>>

\* ------------------------------------------------------- the import scripts
\* The scripts run one at a time against a collection that holds any of the
\* documents.
InitImport ==
  /\ store \in [ImportIds -> {Absent, 1}]
  /\ cache = EmptyCache
  /\ now = 0
  /\ last = Idle
  /\ thr = [w \in Threads |-> IdleThread]
  /\ legCache = <<>>
  /\ ytCache = <<>>
  /\ ytKey = TRUE
  /\ script = NoScript
  /\ colls = NoColls

NextImport ==
  \/ \E data \in LegislatorData, fetched \in LegislatorFetches :
       ImportLegislators(data, fetched)
  \/ \E data \in GovernorData, clear_existing \in BOOLEAN,
        loaded \in GovernorLoads :
       ImportGovernors(data, clear_existing, loaded)
  \/ \E cdata \in CommitteeData, mdata \in MembershipData,
        fetched \in CommitteeFetches :
       ImportCommittees(cdata, mdata, fetched)
  \/ \E house_ok \in BOOLEAN, senate_ok \in BOOLEAN :
       ImportIdeology(house_ok, senate_ok)

SpecImport == InitImport /\ [][NextImport]_vars

\* ======================================================= cache properties
ListReads == {"get_legislators", "get_legislators_by_state", "get_stats"}
CachedReads == ListReads \cup {"get_legislator"}

\* What a list endpoint answers when it is served from the snapshot s.
ServedBody(l, s) ==
  CASE l.op = "get_legislators" ->
         ApplyFilters(s, l.args[1], l.args[2], l.args[3])
    [] l.op = "get_legislators_by_state" ->
         ApplyStateFilter(s, l.args[1], l.args[2])
    [] OTHER -> StatsBody(s)

\* C1: a read of the all-Persons slot or of an individual-Person slot made
\* while the slot is populated and before its expiry performs no store fetch,
\* leaves the cache as it is and answers from the payload the slot holds,
\* whatever the store holds by then.
C1_FreshReadServedFromSlot ==
  [][ /\ (last'.op \in ListReads /\ last'.slot = "fresh") =>
           /\ last'.fetches = 0
           /\ cache' = cache
           /\ last'.body = ServedBody(last', Val(cache.legislators.data))
      /\ (last'.op = "get_legislator" /\ last'.slot = "fresh") =>
           /\ last'.fetches = 0
           /\ cache' = cache
           /\ last'.body = Some(cache.legislators_by_id[last'.args[1]].data)
    ]_vars

\* C2: the first read of a slot whose window has elapsed performs exactly one
\* store fetch and leaves the slot populated with a new window, and a read
\* inside a window performs no store fetch.
C2_OneFetchPerExpiry ==
  /\ (last.op \in ListReads /\ last.slot = "expired") =>
        last.fetches = 1 /\ ListSlotState(cache, now) = "fresh"
  /\ (last.op \in ListReads /\ last.slot = "fresh") => last.fetches = 0
  /\ (last.op = "get_legislator" /\ last.slot = "expired") =>
        last.fetches = 1 /\ PersonSlotState(cache, last.args[1], now) = "fresh"
  /\ (last.op = "get_legislator" /\ last.slot = "fresh") => last.fetches = 0

\* C3: after clear_cache every slot is empty, cache_status would report
\* legislators_cached=false, legislators_count=0, individual_cached=0 and
\* expires_in_seconds=null, and a cached read that finds its slot empty (as
\* the next one does) performs a store fetch.
C3_ClearEmptiesEverySlot ==
  [][ /\ last.op = "clear_cache" =>
           /\ cache = EmptyCache
           /\ StatusBody(cache, now).legislators_cached = FALSE
           /\ StatusBody(cache, now).legislators_count = 0
           /\ StatusBody(cache, now).individual_cached = 0
           /\ StatusBody(cache, now).expires_in_seconds = None
           /\ last'.op \in CachedReads => last'.fetches = 1
      /\ (last'.op \in CachedReads /\ last'.slot = "empty") => last'.fetches = 1
    ]_vars

\* A clear has just emptied a cache whose all-Persons slot was populated.
C3_Witness ==
  /\ last.op = "clear_cache"
  /\ last.slot = "fresh"
  /\ cache = EmptyCache

\* The sort key as one number: ranks of state, chamber and last name.
KeyNum(d) ==
  StrRank(d.state) * 100 + StrRank(d.chamber) * 10 + StrRank(d.last_name)

StoreDocs == {ToDict(id, store[id]) : id \in {i \in PersonIds : store[i] # Absent}}

\* C5: a miss of the all-Persons slot stores exactly the documents of the
\* store, ascending by (state, chamber, last name), with expiry now + 24h.
C5_MissStoresSortedSnapshot ==
  (last.op \in ListReads /\ last.fetches = 1) =>
     LET s == Val(cache.legislators.data)
     IN /\ {s[i] : i \in 1..Len(s)} = StoreDocs
        /\ Len(s) = Cardinality(StoreDocs)
        /\ \A i, j \in 1..Len(s) : i < j => KeyNum(s[i]) <= KeyNum(s[j])
        /\ cache.legislators.expires = Some(now + CACHE_DURATION)

\* A miss stored two documents in the reverse of the stream order.
C5_Witness ==
  /\ last.op \in ListReads
  /\ last.fetches = 1
  /\ Len(Val(cache.legislators.data)) = 2
  /\ Val(cache.legislators.data)[1].bioguide_id = "B000002"

\* C6: right after a miss of the all-Persons slot, every Person of the new
\* snapshot has an individual slot holding the same document and the same
\* expiry as the all-Persons slot.
C6_MissFansOutToPersonSlots ==
  (last.op \in ListReads /\ last.fetches = 1) =>
     LET s == Val(cache.legislators.data)
     IN \A i \in 1..Len(s) :
          /\ s[i].bioguide_id \in DOMAIN cache.legislators_by_id
          /\ cache.legislators_by_id[s[i].bioguide_id] =
               [data |-> s[i], expires |-> Val(cache.legislators.expires)]

\* A refresh of an expired snapshot fanned out to two Persons.
C6_Witness ==
  /\ last.op \in ListReads
  /\ last.fetches = 1
  /\ last.slot = "expired"
  /\ Len(Val(cache.legislators.data)) = 2

\* A Person matches the filters that are given.
Matches(l, state, party, chamber) ==
  /\ state = "" \/ Upper(l.state) = Upper(state)
  /\ party = "" \/ l.party = party
  /\ chamber = "" \/ l.chamber = chamber

MatchingOf(s, state, party, chamber) ==
  LET P(l) == Matches(l, state, party, chamber) IN SelectSeq(s, P)

\* C7: a filtered read answers exactly the cached Persons matching every
\* given filter, in cached order; while the slot is populated and unexpired
\* it leaves the snapshot and its expiry unchanged and does not query the
\* store.
C7_FilteredReadFrame ==
  [][ /\ last'.op = "get_legislators" =>
           last'.body = MatchingOf(Val(cache'.legislators.data),
                                   last'.args[1], last'.args[2], last'.args[3])
      /\ last'.op = "get_legislators_by_state" =>
           last'.body = MatchingOf(Val(cache'.legislators.data),
                                   last'.args[1], "", last'.args[2])
      /\ (last'.op \in {"get_legislators", "get_legislators_by_state"}
            /\ last'.slot = "fresh") =>
           /\ cache'.legislators = cache.legislators
           /\ last'.fetches = 0
    ]_vars

\* C8 as stated: senators before representatives, then by surname.
C8_SenatorsFirst ==
  last.op = "get_legislators_by_state" =>
     \A i, j \in 1..Len(last.body) : i < j =>
        /\ ~(last.body[i].chamber = "House" /\ last.body[j].chamber = "Senate")
        /\ last.body[i].chamber = last.body[j].chamber =>
             StrRank(last.body[i].last_name) <= StrRank(last.body[j].last_name)

\* C8: the by-state endpoint answers that state's Persons with all
\* representatives (House) before all senators, and Persons of the same
\* chamber ordered by surname ascending.
C8_RepresentativesFirst ==
  last.op = "get_legislators_by_state" =>
     /\ \A i \in 1..Len(last.body) :
          Upper(last.body[i].state) = Upper(last.args[1])
     /\ \A i, j \in 1..Len(last.body) : i < j =>
          /\ ~(last.body[i].chamber = "Senate"
                 /\ last.body[j].chamber = "House")
          /\ last.body[i].chamber = last.body[j].chamber =>
               StrRank(last.body[i].last_name)
                 <= StrRank(last.body[j].last_name)

\* The by-state endpoint answered a representative and a senator.
C8_Witness ==
  /\ last.op = "get_legislators_by_state"
  /\ Len(last.body) = 2
  /\ last.body[1].chamber = "House"
  /\ last.body[2].chamber = "Senate"

\* C4: no request observes a torn cache.  cache_status never reports a
\* snapshot without an expiry or an expiry without a snapshot, never reports
\* fewer individual slots than the snapshot has Persons, and a list read that
\* found the snapshot valid returns that snapshot.
C4_NoTornObservation ==
  /\ last.op = "cache_status" =>
       /\ last.body.legislators_cached
            <=> ~IsNone(last.body.expires_in_seconds)
       /\ last.body.legislators_cached =>
            last.body.individual_cached >= last.body.legislators_count
  /\ (last.op = "get_legislators" /\ last.fetches = 0) => ~IsNone(last.body)

\* ======================================================= proxy properties
\* A legislation-summary request that went to the provider.
FreshSummary ==
  /\ last.op = "get_legislation_summary"
  /\ last.status = 200
  /\ ~last.body.cached

\* The latest-action text contains "became public law", whatever the case.
HasMarker(bill) ==
  /\ ~IsNone(bill.latestAction)
  /\ Contains(MarkerLower, Lower(Val(bill.latestAction).text))

PageMarkers(offset, T) ==
  LET page == ProviderPage(offset, T)
  IN Cardinality({i \in 1..Len(page) : HasMarker(page[i])})

\* The number of marked bills on the pages with the offsets S.
MarkerBills(S, T) ==
  (IF 0 \in S THEN PageMarkers(0, T) ELSE 0)
  + (IF PageSize \in S THEN PageMarkers(PageSize, T) ELSE 0)
  + (IF 2 * PageSize \in S THEN PageMarkers(2 * PageSize, T) ELSE 0)

\* C9 as stated: when the provider answers every page request, enacted_count
\* is the number of marked bills over all pages the reported total calls for,
\* also when a page request is answered with a status other than 200.
C9_EnactedCountOverAllPages ==
  (FreshSummary /\ \A o \in Offsets(last.provider.total) :
                      ~IsNone(last.provider.out[o])) =>
    last.body.enacted_count =
      MarkerBills(Offsets(last.provider.total), last.provider.total)

\* The pages a refresh counts: none unless the first page is answered with
\* 200; then every page answered with 200 up to the first request that raises.
CountedOffsets(prov) ==
  IF prov.out[0] # Some(200) THEN {}
  ELSE {o \in Offsets(prov.total) :
          /\ prov.out[o] = Some(200)
          /\ \A o2 \in Offsets(prov.total) : o2 < o => ~IsNone(prov.out[o2])}

\* C9: enacted_count is the number of marked bills on the pages that were
\* fetched with status 200 (all pages when every page request is answered
\* with 200).
C9_EnactedCountOverFetchedPages ==
  FreshSummary =>
    /\ last.body.enacted_count =
         MarkerBills(CountedOffsets(last.provider), last.provider.total)
    /\ (\A o \in Offsets(last.provider.total) :
          last.provider.out[o] = Some(200)) =>
         last.body.enacted_count =
           MarkerBills(Offsets(last.provider.total), last.provider.total)

\* A refresh over three pages whose second page was answered with 500 counted
\* the first and the third page.
C9_Witness ==
  /\ FreshSummary
  /\ last.provider.total = 501
  /\ last.provider.out[0] = Some(200)
  /\ last.provider.out[250] = Some(500)
  /\ last.provider.out[500] = Some(200)
  /\ last.body.enacted_count = 3

ProxyOps ==
  {"get_sponsored_legislation", "get_cosponsored_legislation",
   "get_legislation_summary", "get_youtube_videos"}

\* C10: a proxy request for an identifier that is not in the Person store is
\* answered 404, makes no provider call and writes no cache document, with
\* or without a configured YouTube key.
C10_UnknownIdIsNotFound ==
  (last.op \in ProxyOps /\ ~DocExists(store, last.args[1])) =>
     /\ last.status = 404
     /\ last.calls = 0
     /\ last.writes = 0

\* A step that answers a legislation-summary request for a stored Person.
SummaryStep ==
  /\ last'.op = "get_legislation_summary"
  /\ last'.status = 200
  /\ UNCHANGED <<store, now>>

\* The condition of the claim on the state the request finds.
CacheHit(id, refresh) ==
  /\ id \in DOMAIN legCache
  /\ ~refresh
  /\ now - legCache[id].cached_at < 24

\* C11: legislation-summary answers with the stored cache payload and
\* cached=true, calling no provider and writing no cache document, exactly
\* when a cache document exists for the identifier, refresh is not requested
\* and now - cached_at < 24h; in every other case it calls the provider and
\* answers cached=false.
C11_CachedExactlyWhenFresh ==
  [][SummaryStep =>
       LET id == last'.args[1]
           refresh == last'.args[2]
       IN IF CacheHit(id, refresh)
          THEN /\ last'.body.cached = TRUE
               /\ last'.calls = 0
               /\ last'.writes = 0
               /\ legCache' = legCache
               /\ last'.body.sponsored_count = legCache[id].sponsored_count
               /\ last'.body.cosponsored_count = legCache[id].cosponsored_count
               /\ last'.body.enacted_count = legCache[id].enacted_count
               /\ last'.body.recent_sponsored = legCache[id].recent_sponsored
               /\ last'.body.recent_enacted = legCache[id].recent_enacted
          ELSE /\ last'.body.cached = FALSE
               /\ last'.calls >= 1]_vars

\* A document older than the clock's start is served from the cache, with a
\* count the provider reported.
C11_Witness ==
  /\ last.op = "get_legislation_summary"
  /\ last.status = 200
  /\ last.body.cached = TRUE
  /\ last.body.sponsored_count = 501
  /\ now - legCache["A000001"].cached_at = TickHours

\* The list endpoints, and a request of theirs that reached the provider and
\* got a response.
ListOps == {"get_sponsored_legislation", "get_cosponsored_legislation"}
ListAnswered ==
  /\ last.op \in ListOps
  /\ last.calls = 1
  /\ ~IsNone(last.provider)

\* C12: when the provider answers 404 for a stored Person, the sponsored and
\* cosponsored endpoints answer successfully with count 0 and no bills; any
\* other status outside 200..299 is passed on as an error with that status.
C12_ProviderNotFoundIsEmpty ==
  ListAnswered =>
    LET code == Val(last.provider)
    IN /\ code = 404 =>
            /\ last.status = 200
            /\ last.body.pagination.count = 0
            /\ last.body.bills = <<>>
            /\ last.body.bioguide_id = last.args[1]
       /\ (code # 404 /\ code \notin 200..299) =>
            /\ last.status = code
            /\ last.body = <<>>

\* The cosponsored endpoint has turned a provider 404 into an empty result.
C12_Witness ==
  /\ last.op = "get_cosponsored_legislation"
  /\ last.calls = 1
  /\ last.provider = Some(404)
  /\ last.status = 200
  /\ last.body.bills = <<>>

\* C13: a legislation refresh retries a rate-limited call once and no more.
C13_RetriesAtMostOnce ==
  script.pc \in {"sponsored", "pages", "cosponsored", "save", "saved"} =>
    script.retries <= 1

\* A step that answers a bulk refresh, and the position of an identifier in
\* the order the store is scanned.
BulkStep == last'.op = "refresh_all_legislation_cache" /\ UNCHANGED now
ScanPos(id) == CHOOSE i \in 1..Len(IdOrder) : IdOrder[i] = id
Backlog(lc) ==
  {id \in PersonIds :
     /\ store[id] # Absent
     /\ (id \notin DOMAIN lc \/ now - lc[id].cached_at > 24)}

\* C14: the bulk refresh with limit N refreshes only stored identifiers whose
\* cache document is missing or older than 24 hours, at most N of them, in
\* store-scan order, and leaves every other cache document as it was.
C14_BulkRefreshesOnlyStale ==
  [][BulkStep =>
       LET refreshed == last'.body.refreshed
           N == last'.args[1]
       IN /\ Len(refreshed) <= N
          /\ \A i \in 1..Len(refreshed) : refreshed[i] \in Backlog(legCache)
          /\ \A i, j \in 1..Len(refreshed) :
                i < j => ScanPos(refreshed[i]) < ScanPos(refreshed[j])
          /\ \A i \in 1..Len(refreshed) :
                legCache'[refreshed[i]].cached_at = now
          /\ \A id \in DOMAIN legCache :
                id \notin Backlog(legCache) =>
                  legCache'[id] = legCache[id]]_vars

\* The first legislator in scan order was fresh and has been passed over.
C14_Witness ==
  /\ last.op = "refresh_all_legislation_cache"
  /\ last.body.refreshed = <<"B000002">>
  /\ store["A000001"] # Absent
  /\ "A000001" \in DOMAIN legCache
  /\ legCache["A000001"].cached_at < now

\* C15: the remaining value of the bulk refresh is the number of stored
\* identifiers whose cache is still missing or stale after the call.
C15_RemainingIsBacklog ==
  last.op = "refresh_all_legislation_cache" =>
    last.body.remaining = Cardinality(Backlog(legCache))

\* A find-rep request that was answered with a result, and the stored
\* Persons an entry of the provider matches: same state, and the surname
\* taken from the entry equals theirs or occurs in their full name.
FindRepAnswered == last.op = "find_rep" /\ last.status = 200
EntryMatches(rep) ==
  {id \in PersonIds :
     /\ store[id] # Absent
     /\ StoredDoc(id, store[id]).state = rep.state
     /\ LET surname == Lower(ExtractLastName(rep.name))
        IN \/ surname = Lower(PersonName(id).last_name)
           \/ Contains(surname, Lower(PersonName(id).full_name))}
FirstMatch(rep) ==
  CHOOSE id \in EntryMatches(rep) :
    \A other \in EntryMatches(rep) : ScanPos(id) <= ScanPos(other)
Matched(results) == {i \in 1..Len(results) : EntryMatches(results[i]) # {}}

\* C16: find-rep returns at most one matched Person per provider entry, the
\* first match in the store, so that representatives is never longer than
\* raw_results; an entry without a match adds nothing, and raw_results holds
\* every provider entry.
C16_OneMatchPerEntry ==
  FindRepAnswered =>
    LET results == Val(Val(last.provider).json)
        reps == last.body.representatives
    IN /\ last.body.raw_results = results
       /\ Len(reps) <= Len(results)
       /\ Len(reps) = Cardinality(Matched(results))
       /\ \A k \in 1..Len(reps) :
            \E i \in Matched(results) :
               /\ Cardinality({j \in Matched(results) : j <= i}) = k
               /\ reps[k].bioguide_id = FirstMatch(results[i])
               /\ reps[k].api_name = results[i].name

\* An entry that matches two stored Persons gave one representative and an
\* entry that matches nobody gave none.
C16_Witness ==
  /\ FindRepAnswered
  /\ Len(last.body.raw_results) = 2
  /\ Len(last.body.representatives) = 1
  /\ Cardinality(EntryMatches(last.body.raw_results[1])) = 2
  /\ EntryMatches(last.body.raw_results[2]) = {}

\* C17: when the postal-code provider cannot be reached, find-rep fails
\* with status 503.
C17_UnreachableIs503 ==
  (last.op = "find_rep" /\ IsNone(last.provider)) => last.status = 503

\* ====================================================== import properties
\* A run of a script that got all its source data, and one that cleared.
RanOk(op) == script.pc = "ran" /\ script.op = op /\ script.failed = "ok"
Present(st) == {id \in DOMAIN st : st[id] # Absent}
GovernorsIn(st) ==
  {id \in Present(st) : StoredDoc(id, st[id]).chamber = "Governor"}

\* The revision the last written record with this identifier carries.
LastWritten(docs, id) ==
  LET k == CHOOSE i \in 1..Len(docs) :
             /\ docs[i].bioguide_id = id
             /\ \A j \in (i + 1)..Len(docs) : docs[j].bioguide_id # id
  IN docs[k].rev

\* The identifiers of the committee records that are imported.
CommitteeIds(cdata) ==
  {cdata[i].thomas_id : i \in 1..Len(cdata)} \ {NoId}
ImportedCommittees(cdata) ==
  {i \in 1..Len(cdata) : cdata[i].thomas_id # NoId}

\* C18 as stated: after an import run with clearing, the target collection
\* holds exactly the documents the run wrote, one per imported record, and
\* nothing that was there before.
C18_ClearedImportReplacesCollection ==
  /\ (RanOk("import_legislators") \/
       (RanOk("import_governors") /\ script.clear)) =>
        /\ Present(store) = DocIds(script.written)
        /\ Cardinality(Present(store)) = Len(script.written)
  /\ RanOk("import_committees") =>
        /\ DOMAIN colls.committees = CommitteeIds(script.data[1])
        /\ Cardinality(DOMAIN colls.committees) =
             Cardinality(ImportedCommittees(script.data[1]))

\* C18, amended: after an import run with clearing, the documents of the
\* kind the run clears are exactly the documents the run wrote, one per
\* distinct identifier with the content of the last record written for it:
\* import_legislators and import_committees replace their collection,
\* import_governors replaces the documents whose chamber is "Governor" and
\* leaves every other document of the collection as it was.
C18_ClearedImportReplacesItsKind ==
  /\ RanOk("import_legislators") =>
        /\ Present(store) = DocIds(script.written)
        /\ \A id \in Present(store) :
             store[id] = LastWritten(script.written, id)
  /\ (RanOk("import_governors") /\ script.clear) =>
        /\ GovernorsIn(store) = DocIds(script.written)
        /\ \A id \in GovernorsIn(store) :
             store[id] = LastWritten(script.written, id)
        /\ \A id \in DOMAIN store \ GovernorIds :
             store[id] = script.before[id]
  /\ RanOk("import_committees") =>
        /\ DOMAIN colls.committees = CommitteeIds(script.data[1])
        /\ \A i \in ImportedCommittees(script.data[1]) :
             colls.committees[script.data[1][i].thomas_id].name =
               script.data[1][i].name

\* A run of import_governors with clearing has removed a governor that is
\* not in its source file, replaced another and kept a legislator.
C18_Witness ==
  /\ RanOk("import_governors")
  /\ script.clear
  /\ script.before["GOV-NY"] # Absent
  /\ store["GOV-NY"] = Absent
  /\ script.before["GOV-CA"] = 1
  /\ store["GOV-CA"] = 2
  /\ store["A000001"] # Absent

\* A step that runs import_legislators or import_governors to the end, and
\* one that repeats the run before it on the same source data.
PersonImports == {"import_legislators", "import_governors"}
ImportStep ==
  /\ script'.pc = "ran"
  /\ script'.op \in PersonImports
  /\ script'.failed = "ok"
RunAgain ==
  /\ ImportStep
  /\ script.pc = "ran"
  /\ script.failed = "ok"
  /\ script.op = script'.op
  /\ script.data = script'.data
  /\ script.clear = script'.clear

\* Running the same import a second time changes nothing, and a run
\* without clearing sets each imported identifier and leaves the others.
Idempotent == RunAgain => UNCHANGED <<store, colls>>
Upserts ==
  (ImportStep /\ ~script'.clear) =>
     /\ \A id \in DocIds(script'.written) :
          store'[id] = LastWritten(script'.written, id)
     /\ \A id \in DOMAIN store \ DocIds(script'.written) :
          store'[id] = store[id]

\* C19 as stated: imports are idempotent; with clearing the collection is
\* fully replaced, without clearing each record is upserted by identifier.
C19_IdempotentFullReplace ==
  [][/\ Idempotent
     /\ Upserts
     /\ (ImportStep /\ script'.clear) =>
          /\ Present(store') = DocIds(script'.written)
          /\ \A id \in Present(store') :
               store'[id] = LastWritten(script'.written, id)]_vars

\* C19, amended: imports are idempotent; with clearing the documents of the
\* imported kind are fully replaced (import_governors keeps the documents
\* whose chamber is not "Governor"), without clearing each record is
\* upserted by identifier and documents with other identifiers stay.
C19_IdempotentReplaceOfKind ==
  [][/\ Idempotent
     /\ Upserts
     /\ (ImportStep /\ script'.clear) =>
          LET kind == IF script'.op = "import_governors"
                      THEN GovernorsIn(store') ELSE Present(store')
          IN /\ kind = DocIds(script'.written)
             /\ \A id \in kind :
                  store'[id] = LastWritten(script'.written, id)
             /\ script'.op = "import_governors" =>
                  \A id \in DOMAIN store \ GovernorIds :
                    store'[id] = store[id]]_vars

\* import_governors without clearing has run on its own result: a governor
\* that is not in the source file and a legislator are still in place.
C19_Witness ==
  /\ RanOk("import_governors")
  /\ ~script.clear
  /\ script.before = store
  /\ store["GOV-CA"] = 2
  /\ store["GOV-NY"] # Absent
  /\ "GOV-NY" \notin DocIds(script.written)
  /\ store["B000002"] # Absent

\* C20: a run in which a fetch of source data failed has cleared and
\* written nothing.
C20_FailedFetchLeavesStore ==
  (script.pc = "ran" /\ script.failed # "ok") =>
     /\ store = script.before
     /\ colls = script.collsBefore

\* The documents of the collection that carry an identifier the run wrote.
WrittenDocuments == Present(store) \cap DocIds(script.written)

\* C21: the identifier of every document an importer writes is made from
\* its source record alone, two different imported records never get the
\* same identifier, and so a run leaves as many documents as it imported
\* records.
C21_OneDocumentPerRecord ==
  (RanOk("import_legislators") \/ RanOk("import_governors")) =>
     /\ \A i, j \in 1..Len(script.written) :
          (i # j /\ script.written[i] # script.written[j]) =>
             script.written[i].bioguide_id # script.written[j].bioguide_id
     /\ Cardinality(WrittenDocuments) = Len(script.written)

\* The stored document with this identifier and the fields other scripts
\* added to it.
WholeDocument(st, c, id) ==
  <<st[id],
    IF id \in DOMAIN c.derived THEN Some(c.derived[id]) ELSE None,
    IF id \in DOMAIN c.scores THEN Some(c.scores[id]) ELSE None>>

\* The documents of the collection whose chamber is not "Governor".
NonGovernorsIn(st) == Present(st) \ GovernorsIn(st)

\* C22: a run of import_governors, with or without clearing, deletes and
\* modifies no document of the legislators collection whose chamber is not
\* "Governor".
C22_GovernorImportKeepsOthers ==
  [][(script'.pc = "ran" /\ script'.op = "import_governors") =>
       \A id \in NonGovernorsIn(store) :
         WholeDocument(store', colls', id) =
           WholeDocument(store, colls, id)]_vars

\* import_governors has cleared and rewritten the governors next to a
\* legislator that carries scores, and the legislator is as it was.
C22_Witness ==
  /\ RanOk("import_governors")
  /\ script.clear
  /\ GovernorsIn(script.before) # GovernorsIn(store)
  /\ "B000002" \in NonGovernorsIn(script.before)
  /\ "B000002" \in DOMAIN script.collsBefore.scores
  /\ WholeDocument(store, colls, "B000002") =
       WholeDocument(script.before, script.collsBefore, "B000002")

\* ============================================== legislation cache entries
Min(a, b) == IF a < b THEN a ELSE b

\* The samples of a cache document are in step with its counts.
SamplesInStep(doc) ==
  /\ Len(doc.recent_sponsored) <= 5
  /\ Len(doc.recent_enacted) <= 5
  /\ \A i \in 1..Len(doc.recent_enacted) : HasMarker(doc.recent_enacted[i])
  /\ Len(doc.recent_enacted) = Min(5, doc.enacted_count)

\* C23: every legislation cache entry a refresh writes has at most 5 bills
\* in recent_sponsored and in recent_enacted, every bill of recent_enacted
\* has a latest action containing "became public law", and recent_enacted
\* has min(5, enacted_count) bills.
C23_SamplesBounded ==
  \A id \in DOMAIN legCache : SamplesInStep(legCache[id])

\* A refresh over three pages found six enacted bills and more than five
\* sponsored ones, and kept five of each.
C23_Witness ==
  /\ FreshSummary
  /\ last.args[1] \in DOMAIN legCache
  /\ legCache[last.args[1]].enacted_count = 6
  /\ Len(legCache[last.args[1]].recent_enacted) = 5
  /\ Len(legCache[last.args[1]].recent_sponsored) = 5
  /\ Len(ProviderPage(0, last.provider.total)) > 5

\* ========================================================= pagination
\* max(1, ceil(T / 250))
PagesFor(T) == IF T = 0 THEN 1 ELSE (T + 249) \div 250

\* The offsets 0, 250, 500, ... of that many requests, in order.
OffsetsFor(T) == [k \in 1..PagesFor(T) |-> (k - 1) * 250]

\* A refresh of the endpoint whose first request reported a total and whose
\* page requests were all answered, with whatever status.
PagedRefresh ==
  /\ FreshSummary
  /\ last.provider.out[0] = Some(200)
  /\ \A o \in DOMAIN last.provider.out : ~IsNone(last.provider.out[o])

\* C24: the pagination loop of a refresh ends for every reported total
\* T >= 0 after exactly max(1, ceil(T/250)) requests for the sponsored
\* list, at the offsets 0, 250, 500, ... below T, also when page requests
\* are answered with a status other than 200.
C24_OneRequestPerPage ==
  PagedRefresh =>
    /\ last.offsets = OffsetsFor(last.provider.total)
    /\ last.calls = PagesFor(last.provider.total) + 1
    /\ \A k \in 2..Len(last.offsets) : last.offsets[k] < last.provider.total

\* A refresh over three pages whose second page was answered with 500 made
\* the three requests.
C24_Witness ==
  /\ PagedRefresh
  /\ last.provider.total = 501
  /\ last.provider.out[250] = Some(500)
  /\ last.offsets = <<0, 250, 500>>

\* The same for a run of import_legislation.py that has saved its document.
ScriptOneRequestPerPage ==
  (/\ script.pc = "saved"
   /\ script.answers[1] = Some(200)
   /\ \A k \in 1..Len(script.answers) : ~IsNone(script.answers[k])) =>
    /\ script.offsets = OffsetsFor(script.total)
    /\ script.calls = PagesFor(script.total) + 1

\* ===================================================== failed refreshes
\* No request of the refresh was answered with 200.
AllFailed(prov) ==
  /\ prov.cosp # Some(200)
  /\ \A o \in DOMAIN prov.out : prov.out[o] # Some(200)

\* Zero counts and empty samples.
ZeroCounts(doc) ==
  /\ doc.sponsored_count = 0
  /\ doc.cosponsored_count = 0
  /\ doc.enacted_count = 0
  /\ doc.recent_sponsored = <<>>
  /\ doc.recent_enacted = <<>>

\* C25: a legislation-summary call that is not served from the cache
\* overwrites the cache document with a fresh cached_at, with zero counts
\* and empty samples when every provider request failed or was answered
\* with a status other than 200; later calls without refresh get that
\* document with cached=true while it is less than 24 hours old.
C25_FailedRefreshIsCached ==
  [][SummaryStep =>
       LET id == last'.args[1]
           refresh == last'.args[2]
       IN /\ ~last'.body.cached =>
               /\ id \in DOMAIN legCache'
               /\ legCache'[id].cached_at = now
               /\ SummaryBody(legCache'[id], FALSE) = last'.body
               /\ AllFailed(last'.provider) => ZeroCounts(legCache'[id])
          /\ (/\ id \in DOMAIN legCache
              /\ ZeroCounts(legCache[id])
              /\ ~refresh
              /\ now - legCache[id].cached_at < 24) =>
               /\ last'.body.cached
               /\ ZeroCounts(last'.body)
               /\ last'.calls = 0
               /\ legCache' = legCache]_vars

\* Twelve hours after a refresh that got no answer, the zero counts it
\* wrote are served from the cache.
C25_Witness ==
  /\ last.op = "get_legislation_summary"
  /\ last.status = 200
  /\ last.body.cached
  /\ ZeroCounts(last.body)
  /\ legCache[last.args[1]].cached_at = TickHours
  /\ now = 2 * TickHours

\* ================================================ the all-Persons slot
\* C26: when requests do not overlap, after any sequence of list reads,
\* single reads, cache_status and clear_cache calls the data of the
\* all-Persons slot is unset exactly when its expiry is unset, and
\* cache_status reports legislators_cached=true exactly when it reports a
\* value for expires_in_seconds.
C26_DataAndExpiryTogether ==
  /\ IsNone(cache.legislators.data) <=> IsNone(cache.legislators.expires)
  /\ last.op = "cache_status" =>
       (last.body.legislators_cached <=>
          ~IsNone(last.body.expires_in_seconds))

\* cache_status after a list read of an empty store: cached, no documents,
\* and an expiry twelve hours ahead.
C26_Witness ==
  /\ last.op = "cache_status"
  /\ last.body.legislators_cached
  /\ last.body.legislators_count = 0
  /\ last.body.expires_in_seconds = Some(TickHours * 3600)

\* C27: whenever cache_status reports legislators_cached=true and the expiry
\* of the slot is in the future, the next all-Persons read is served from
\* the cache without a store fetch, also when the snapshot is the empty
\* list of an empty store.
C27_ReportedSnapshotIsServed ==
  [][(/\ last'.op \in ListReads
      /\ StatusBody(cache, now).legislators_cached
      /\ Val(StatusBody(cache, now).expires_in_seconds) > 0) =>
        /\ last'.fetches = 0
        /\ cache' = cache]_vars

\* ======================================================== single reads
\* A single read of an identifier that has no individual slot and no
\* document in the store.
ReadOfUnknown ==
  /\ last'.op = "get_legislator"
  /\ last'.args[1] \notin DOMAIN cache.legislators_by_id
  /\ ~DocExists(store, last'.args[1])

\* C28: a single read for an identifier that is in neither the cache nor
\* the store is answered 404 and leaves the whole cache as it was; no slot
\* is made for the identifier, so a read of it that follows fetches from the
\* store again.
C28_UnknownReadLeavesCache ==
  [][/\ ReadOfUnknown =>
          /\ last'.status = 404
          /\ last'.fetches = 1
          /\ cache' = cache
     /\ (/\ last.op = "get_legislator"
         /\ last.status = 404
         /\ last.slot = "empty"
         /\ last'.op = "get_legislator"
         /\ last'.args = last.args) =>
          /\ last'.status = 404
          /\ last'.fetches = 1
          /\ last'.slot = "empty"]_vars

\* An identifier the store does not hold was read next to a populated
\* cache: 404 after a store fetch, and still no slot for it.
C28_Witness ==
  /\ last.op = "get_legislator"
  /\ last.status = 404
  /\ last.fetches = 1
  /\ last.slot = "empty"
  /\ last.args[1] \notin DOMAIN cache.legislators_by_id
  /\ ~IsNone(cache.legislators.data)
  /\ DOMAIN cache.legislators_by_id # {}

\* ============================================= snapshot and single slots
\* The entries of the snapshot that carry the identifier.
SnapshotEntries(c, id) ==
  {i \in 1..Len(Val(c.legislators.data)) :
     Val(c.legislators.data)[i].id = id}

\* C29: whenever the all-Persons slot and the individual slot of an
\* identifier are both populated and unexpired and the identifier is in the
\* snapshot, the document of the individual slot is the snapshot's entry for
\* it, after any sequence of list reads, single reads, clears, time advances
\* and store changes.
C29_SlotAgreesWithSnapshot ==
  \A id \in AllIds :
    (/\ ListSlotState(cache, now) = "fresh"
     /\ PersonSlotState(cache, id, now) = "fresh") =>
       \A i \in SnapshotEntries(cache, id) :
         cache.legislators_by_id[id].data = Val(cache.legislators.data)[i]

\* Snapshot and individual slot, written by a list read at hour 12, are both
\* fresh and hold the same document while the store holds another one.
C29_Witness ==
  /\ ListSlotState(cache, now) = "fresh"
  /\ PersonSlotState(cache, "A000001", now) = "fresh"
  /\ SnapshotEntries(cache, "A000001") # {}
  /\ cache.legislators_by_id["A000001"].data.rev = 2
  /\ store["A000001"] = 1
  /\ now = 2 * TickHours
  /\ Val(cache.legislators.expires) = 36

\* ====================================================== order of imports
\* A run of one of the two imports right after a run of the other, both
\* with all their source data.
BothImportsRun ==
  /\ ImportStep
  /\ script.pc = "ran"
  /\ script.failed = "ok"
  /\ script.op \in PersonImports
  /\ script.op # script'.op

\* The collection after the same two runs in the other order.
OtherOrder ==
  IF script'.op = "import_governors"
  THEN AfterImportLegislators(
         AfterImportGovernors(script.before, script'.data, script'.clear),
         script.data)
  ELSE AfterImportGovernors(
         AfterImportLegislators(script.before, script'.data),
         script.data, script.clear)

\* C30: the content of the legislators collection after import_legislators
\* and import_governors have both run does not depend on the order of the
\* two runs, and holds every imported legislator and every imported
\* governor.
C30_ImportOrderIrrelevant ==
  [][BothImportsRun =>
       /\ store' = OtherOrder
       /\ DocIds(script.written) \cup DocIds(script'.written)
            \subseteq Present(store')]_vars

====
